---- MODULE Spec2Model ----
(***************************************************************************)
(* SCID game decoder of obsidian-chess-journal: the piece-list board       *)
(* (scid/board.ts), the move/marker decoder (scid/decode.ts) and the       *)
(* game-stream parser (scid/game.ts), as a state machine over one call of  *)
(* parseGameData, plus a specification that drives the Board API directly. *)
(***************************************************************************)
EXTENDS Integers, Sequences, FiniteSets, TLC

(***************************************************************************)
(* Constants of scid/types.ts                                              *)
(***************************************************************************)
KING == 1
QUEEN == 2
ROOK == 3
BISHOP == 4
KNIGHT == 5
PAWN == 6
EMPTY == 7

WHITE == 0
BLACK == 1

ENCODE_NAG == 11
ENCODE_COMMENT == 12
ENCODE_START_MARKER == 13
ENCODE_END_MARKER == 14
ENCODE_END_GAME == 15

\* JavaScript values that are not integers. NaN is what arithmetic on
\* `undefined` yields (a delta table read past its end, parseInt of a
\* non-digit); Undef is a read of an array or typed array outside its range.
NaN == 99999
Undef == 99998

\* promo === null
NoPromo == 0

IsNum(x) == x # NaN /\ x # Undef

\* Op applied to the value of x: x is evaluated once, however often Op uses it
Bind(x, Op(_)) == CHOOSE r \in {Op(v) : v \in {x}} : TRUE

\* a + b in JavaScript numbers
Plus(a, b) == IF IsNum(a) /\ IsNum(b) THEN a + b ELSE NaN

Abs(x) == IF x < 0 THEN 0 - x ELSE x

\* sq & 7 ; ToInt32(NaN) is 0
squareFile(sq) == IF IsNum(sq) THEN sq % 8 ELSE 0

\* sq >> 3 (arithmetic shift: floor division)
squareRank(sq) == IF IsNum(sq) THEN sq \div 8 ELSE 0

FILE_CHARS == <<"a", "b", "c", "d", "e", "f", "g", "h">>
RANK_CHARS == <<"1", "2", "3", "4", "5", "6", "7", "8">>

\* FILE_CHARS[sq & 7] + RANK_CHARS[sq >> 3]: the two characters of the string,
\* the second being the text "undefined" when RANK_CHARS is indexed outside 0..7.
squareToAlgebraic(sq) ==
    << FILE_CHARS[squareFile(sq) + 1],
       IF squareRank(sq) \in 0..7 THEN RANK_CHARS[squareRank(sq) + 1] ELSE "undefined" >>

(***************************************************************************)
(* Board (scid/board.ts)                                                   *)
(***************************************************************************)
Piece(t, c, sq) == [type |-> t, color |-> c, square |-> sq]

EmptyPiece == Piece(EMPTY, WHITE, -1)

\* new Int8Array(64).fill(-1), 32 EMPTY pieces, empty lists
NewBoard ==
    [ board      |-> [sq \in 0..63 |-> -1],
      pieces     |-> [i \in 0..31 |-> EmptyPiece],
      list       |-> [c \in 0..1 |-> <<>>],
      listCount  |-> [c \in 0..1 |-> 0],
      sideToMove |-> WHITE,
      epSquare   |-> -1 ]

\* this.board[sq] on the Int8Array: undefined outside 0..63
BoardGet(b, sq) == IF IsNum(sq) /\ sq \in 0..63 THEN b.board[sq] ELSE Undef

\* this.board[sq] = v on the Int8Array: a write outside 0..63 is ignored
BoardSet(b, sq, v) ==
    IF IsNum(sq) /\ sq \in 0..63 THEN [b EXCEPT !.board[sq] = v] ELSE b

\* x >= 0 for a value read from the board (undefined >= 0 is false)
IsIdx(x) == IsNum(x) /\ x >= 0

\* this.pieces[absIdx] = p on the JS array (it grows when absIdx = length)
PiecesSet(b, absIdx, p) ==
    [b EXCEPT !.pieces =
        [i \in (DOMAIN b.pieces) \cup {absIdx} |-> IF i = absIdx THEN p ELSE b.pieces[i]]]

\* arr[idx] = v on a JS array whose length is Len(arr): idx <= length
ArrSet(arr, idx, v) ==
    IF idx < Len(arr) THEN [arr EXCEPT ![idx + 1] = v] ELSE Append(arr, v)

\* arr.indexOf(v), -1 when absent
IndexOf(arr, v) ==
    IF \E i \in 1..Len(arr) : arr[i] = v
    THEN (CHOOSE i \in 1..Len(arr) : arr[i] = v /\ \A j \in 1..(i - 1) : arr[j] # v) - 1
    ELSE -1

getSideToMove(b) == b.sideToMove

getPieceCount(b, color) == b.listCount[color]

\* getPiece: this.pieces[this.list[color][listIndex]], undefined past the list
HasPiece(b, color, listIndex) == listIndex < Len(b.list[color])

getPiece(b, color, listIndex) == b.pieces[b.list[color][listIndex + 1]]

StdOrder == <<KING, ROOK, KNIGHT, BISHOP, QUEEN, BISHOP, KNIGHT, ROOK,
              PAWN, PAWN, PAWN, PAWN, PAWN, PAWN, PAWN, PAWN>>

WhiteStdSquares == <<4, 0, 1, 2, 3, 5, 6, 7, 8, 9, 10, 11, 12, 13, 14, 15>>
BlackStdSquares == <<60, 56, 57, 58, 59, 61, 62, 63, 48, 49, 50, 51, 52, 53, 54, 55>>

\* list[color][i] = absIdx, i = 0..15
WhiteStdList == <<0, 1, 2, 3, 4, 5, 6, 7, 8, 9, 10, 11, 12, 13, 14, 15>>
BlackStdList == <<16, 17, 18, 19, 20, 21, 22, 23, 24, 25, 26, 27, 28, 29, 30, 31>>

\* a setup that lists the back rank in file order a..h
StdPieceFileOrder(i) ==
    IF i < 8 THEN Piece(<<ROOK, KNIGHT, BISHOP, QUEEN, KING, BISHOP, KNIGHT, ROOK>>[i + 1], WHITE, i)
    ELSE IF i < 16 THEN Piece(PAWN, WHITE, i)
    ELSE Piece(StdOrder[i - 15], BLACK, BlackStdSquares[i - 15])

StdPiece(i) ==
    IF i < 16 THEN Piece(StdOrder[i + 1], WHITE, WhiteStdSquares[i + 1])
    ELSE Piece(StdOrder[i - 15], BLACK, BlackStdSquares[i - 15])

setupStartPosition(b) ==
    [ board      |-> [sq \in 0..63 |->
                        IF \E i \in 0..31 : StdPiece(i).square = sq
                        THEN CHOOSE i \in 0..31 : StdPiece(i).square = sq
                        ELSE -1],
      pieces     |-> [i \in DOMAIN b.pieces |-> IF i < 32 THEN StdPiece(i) ELSE b.pieces[i]],
      list       |-> [c \in 0..1 |-> IF c = WHITE THEN WhiteStdList ELSE BlackStdList],
      listCount  |-> [c \in 0..1 |-> 16],
      sideToMove |-> WHITE,
      epSquare   |-> -1 ]

\* Character codes of the FEN text (latin1 bytes of the game record)
CH_SPACE == 32
CH_DASH == 45
CH_SLASH == 47
CH_0 == 48
CH_1 == 49
CH_8 == 56
CH_9 == 57
CH_B == 66
CH_K == 75
CH_N == 78
CH_P == 80
CH_Q == 81
CH_R == 82
CH_a == 97
CH_b == 98
CH_z == 122

\* ch.toUpperCase() on the ASCII range
ToUpper(ch) == IF ch \in CH_a..CH_z THEN ch - 32 ELSE ch

charToPieceType(ch) ==
    CASE ch = CH_K -> KING
      [] ch = CH_Q -> QUEEN
      [] ch = CH_R -> ROOK
      [] ch = CH_B -> BISHOP
      [] ch = CH_N -> KNIGHT
      [] ch = CH_P -> PAWN
      [] OTHER -> PAWN

\* s.split(sep) on a sequence of character codes
RECURSIVE SplitAcc(_, _, _, _)
SplitAcc(s, sep, i, cur) ==
    IF i > Len(s) THEN <<cur>>
    ELSE IF s[i] = sep THEN <<cur>> \o SplitAcc(s, sep, i + 1, <<>>)
    ELSE SplitAcc(s, sep, i + 1, Append(cur, s[i]))

Split(s, sep) == SplitAcc(s, sep, 1, <<>>)

addPiece(b, type, color, sq) ==
    LET base   == color * 16
        count  == b.listCount[color]
        absIdx == base + count
        b1 == IF type = KING /\ count > 0
              THEN [b EXCEPT !.list[color] = ArrSet(@, count, @[1])]
              ELSE b
        b2 == BoardSet(PiecesSet(b1, absIdx, Piece(type, color, sq)), sq, absIdx)
        b3 == IF type = KING
              THEN [b2 EXCEPT !.list[color] = ArrSet(@, 0, absIdx)]
              ELSE [b2 EXCEPT !.list[color] = ArrSet(@, count, absIdx)]
    IN  [b3 EXCEPT !.listCount[color] = count + 1]

\* the characters of one FEN row, left to right
RECURSIVE FenRow(_, _, _, _, _)
FenRow(b, row, i, rank, file) ==
    IF i > Len(row) THEN b
    ELSE LET ch == row[i] IN
         IF ch \in CH_1..CH_8 THEN FenRow(b, row, i + 1, rank, file + (ch - CH_0))
         ELSE LET nb == addPiece(b, charToPieceType(ToUpper(ch)),
                                 IF ch = ToUpper(ch) THEN WHITE ELSE BLACK,
                                 rank * 8 + file)
              IN  IF nb.listCount[WHITE] >= 0    \* always: evaluates nb before the next character
                  THEN FenRow(nb, row, i + 1, rank, file + 1)
                  ELSE nb

RECURSIVE FenRows(_, _, _)
FenRows(b, rows, rowIdx) ==
    IF rowIdx >= Len(rows) THEN b
    ELSE LET nb == FenRow(b, rows[rowIdx + 1], 1, 7 - rowIdx, 0)
         IN  IF nb.listCount[WHITE] >= 0     \* always: evaluates nb before the next row
             THEN FenRows(nb, rows, rowIdx + 1)
             ELSE nb

\* parseInt(ch, 10) of one character
ParseDigit(ch) == IF ch \in CH_0..CH_9 THEN ch - CH_0 ELSE NaN

\* the en-passant field parts[3]
FenEpSquare(parts) ==
    IF Len(parts) > 3 /\ parts[4] # <<CH_DASH>>
    THEN LET f  == parts[4]
             epFile == IF Len(f) >= 1 THEN f[1] - CH_a ELSE NaN
             epRank == IF Len(f) >= 2 THEN Plus(ParseDigit(f[2]), -1) ELSE NaN
         IN  IF IsNum(epRank) /\ IsNum(epFile) THEN epRank * 8 + epFile ELSE NaN
    ELSE -1

setupFromFEN(b, fen) ==
    LET parts == Split(fen, CH_SPACE)
        rows  == Split(parts[1], CH_SLASH)
        b0 == [b EXCEPT !.board = [sq \in 0..63 |-> -1],
                        !.pieces = [i \in DOMAIN b.pieces |->
                                      IF i < 32 THEN EmptyPiece ELSE b.pieces[i]],
                        !.list = [c \in 0..1 |-> <<>>],
                        !.listCount = [c \in 0..1 |-> 0]]
        b1 == FenRows(b0, rows, 0)
    IN  [b1 EXCEPT !.sideToMove = IF Len(parts) > 1 /\ parts[2] = <<CH_b>> THEN BLACK ELSE WHITE,
                   !.epSquare = FenEpSquare(parts)]

removePiece(b, absIdx) ==
    LET piece   == b.pieces[absIdx]
        color   == piece.color
        listIdx == IndexOf(b.list[color], absIdx)
        lastIdx == b.listCount[color] - 1
        b1 == IF listIdx >= 0
              THEN [b EXCEPT
                      !.list[color] =
                          SubSeq(IF listIdx < lastIdx
                                 THEN ArrSet(b.list[color], listIdx, b.list[color][lastIdx + 1])
                                 ELSE b.list[color],
                                 1, lastIdx),
                      !.listCount[color] = lastIdx]
              ELSE b
        b2 == IF IsIdx(piece.square) THEN BoardSet(b1, piece.square, -1) ELSE b1
    IN  [b2 EXCEPT !.pieces[absIdx] = [@ EXCEPT !.square = -1, !.type = EMPTY]]

\* The result of a call that either returns or throws
Returned(b) == [thrown |-> FALSE, b |-> b]
Thrown(b) == [thrown |-> TRUE, b |-> b]

\* a castling branch that leaves the rook's slot on its corner square as well
CastleRookKeepsCorner(b, from, to) ==
    LET kingside == IsNum(to) /\ to > from
        rookFrom == IF kingside THEN squareRank(from) * 8 + 7 ELSE squareRank(from) * 8
        rookTo   == IF kingside THEN squareRank(from) * 8 + 5 ELSE squareRank(from) * 8 + 3
        rookIdx  == BoardGet(b, rookFrom)
    IN  IF IsIdx(rookIdx)
        THEN [BoardSet(b, rookTo, rookIdx) EXCEPT !.pieces[rookIdx].square = rookTo]
        ELSE b

\* the rook relocation of a castling move
CastleRook(b, from, to) ==
    LET kingside == IsNum(to) /\ to > from
        rookFrom == IF kingside THEN squareRank(from) * 8 + 7 ELSE squareRank(from) * 8
        rookTo   == IF kingside THEN squareRank(from) * 8 + 5 ELSE squareRank(from) * 8 + 3
        rookIdx  == BoardGet(b, rookFrom)
    IN  IF IsIdx(rookIdx)
        THEN [BoardSet(BoardSet(b, rookFrom, -1), rookTo, rookIdx)
                EXCEPT !.pieces[rookIdx].square = rookTo]
        ELSE b

\* an en-passant capture that looks for the pawn in front of the target square
EpCaptureSquareAhead(b, to) == IF b.sideToMove = WHITE THEN to + 8 ELSE to - 8

\* the square of the pawn an en-passant capture onto `to` removes
EpCaptureSquare(b, to) == IF b.sideToMove = WHITE THEN to - 8 ELSE to + 8

\* a null move that keeps the en-passant square
NullMoveKeepsEp(b) == [b EXCEPT !.sideToMove = 1 - @]

\* the isNull branch: flip the side to move, clear the en-passant square
NullMove(b) == [b EXCEPT !.sideToMove = 1 - @, !.epSquare = -1]

\* a move from an empty square that still passes the turn
EmptyFromMovePassesTurn(b) == [b EXCEPT !.sideToMove = 1 - @]

\* `if (movingIdx < 0) return;`
EmptyFromMove(b) == b

applyMove(b, from, to, promo, isCastle, isNull) ==
    IF isNull
    THEN Returned(NullMove(b))
    ELSE LET movingIdx == BoardGet(b, from) IN
         IF IsNum(movingIdx) /\ movingIdx < 0 THEN Returned(EmptyFromMove(b))
         ELSE IF movingIdx = Undef THEN Thrown(b)   \* movingPiece is undefined: .type throws
         ELSE
         LET movingIsPawn == b.pieces[movingIdx].type = PAWN
             capturedIdx  == BoardGet(b, to)
             epCaptureSq  == IF movingIsPawn /\ IsNum(to) /\ IsNum(b.epSquare) /\ to = b.epSquare
                             THEN EpCaptureSquare(b, to)
                             ELSE -1
             b1 == [b EXCEPT !.epSquare =
                       IF movingIsPawn /\ IsNum(to) /\ Abs(to - from) = 16
                       THEN (from + to) \div 2 ELSE -1]
             b2 == IF IsIdx(capturedIdx) THEN removePiece(b1, capturedIdx)
                   ELSE IF epCaptureSq >= 0
                   THEN LET epIdx == BoardGet(b1, epCaptureSq) IN
                        IF IsIdx(epIdx)
                        THEN BoardSet(removePiece(b1, epIdx), epCaptureSq, -1)
                        ELSE b1
                   ELSE b1
             b3 == [BoardSet(BoardSet(b2, from, -1), to, movingIdx)
                      EXCEPT !.pieces[movingIdx].square = to]
             b4 == IF promo # NoPromo THEN [b3 EXCEPT !.pieces[movingIdx].type = promo] ELSE b3
             b5 == IF isCastle THEN CastleRook(b4, from, to) ELSE b4
         IN  Returned([b5 EXCEPT !.sideToMove = 1 - @])

\* clone(): a deep copy; boards are values here
clone(b) == b

(***************************************************************************)
(* Move/marker decoder (scid/decode.ts)                                    *)
(***************************************************************************)
KING_DELTAS == <<0, -9, -8, -7, -1, 1, 7, 8, 9>>
KNIGHT_DELTAS == <<0, -17, -15, -10, -6, 6, 10, 15, 17>>

\* table[code]: undefined (NaN in arithmetic) past the end of the table
Delta(table, code) == IF code < Len(table) THEN table[code + 1] ELSE NaN

\* [to, isCastle, isNull]
decodeKing(from, code) ==
    IF code = 0 THEN [to |-> from, isCastle |-> FALSE, isNull |-> TRUE]
    ELSE IF code = 10 THEN [to |-> Plus(from, 2), isCastle |-> TRUE, isNull |-> FALSE]
    ELSE IF code = 9 THEN [to |-> Plus(from, -2), isCastle |-> TRUE, isNull |-> FALSE]
    ELSE [to |-> Plus(from, Delta(KING_DELTAS, code)), isCastle |-> FALSE, isNull |-> FALSE]

\* a queen that pulls a second byte for every file code
QueenPullsOnFileCodes(from, code) == code < 8

\* the queen's own file as code announces a second byte
QueenPulls(from, code) == code < 8 /\ code = squareFile(from)

\* secondByte is the value readNextByte() returns
decodeQueen(from, code, secondByte) ==
    IF code < 8
    THEN (IF code = squareFile(from) THEN secondByte - 64
          ELSE squareRank(from) * 8 + code)
    ELSE (code - 8) * 8 + squareFile(from)

decodeRook(from, code) ==
    IF code < 8 THEN squareRank(from) * 8 + code
    ELSE (code - 8) * 8 + squareFile(from)

decodeBishop(from, code) ==
    IF code < 8
    THEN (squareRank(from) + (code - squareFile(from))) * 8 + code
    ELSE (squareRank(from) - ((code - 8) - squareFile(from))) * 8 + (code - 8)

decodeKnight(from, code) == Plus(from, Delta(KNIGHT_DELTAS, code))

PROMO_PIECES == <<QUEEN, ROOK, BISHOP, KNIGHT>>

\* [to, promo]
decodePawn(from, code, color) ==
    LET dir      == IF color = WHITE THEN 1 ELSE -1
        leftFile == IF color = WHITE THEN -1 ELSE 1
        step(k)  == IF k = 0 THEN Plus(from, dir * 8 + leftFile)
                    ELSE IF k = 1 THEN Plus(from, dir * 8)
                    ELSE Plus(from, dir * 8 - leftFile)
    IN  IF code = 15 THEN [to |-> Plus(from, dir * 16), promo |-> NoPromo]
        ELSE IF code <= 2 THEN [to |-> step(code), promo |-> NoPromo]
        ELSE [to |-> step((code - 3) % 3), promo |-> PROMO_PIECES[((code - 3) \div 3) + 1]]

pieceTypeToChar(pt) ==
    CASE pt = QUEEN -> "q"
      [] pt = ROOK -> "r"
      [] pt = BISHOP -> "b"
      [] pt = KNIGHT -> "n"
      [] OTHER -> "q"

\* ScidMove; promotion is "" when the field is absent
ScidMove(from, to, promo) ==
    [from |-> squareToAlgebraic(from), to |-> squareToAlgebraic(to),
     promotion |-> IF promo # NoPromo THEN pieceTypeToChar(promo) ELSE ""]

\* a decoder whose markers never call readNextByte
MarkerNeverPulls(t, pulled) ==
    [type |-> t, pulled |-> FALSE, from |-> -1, to |-> -1, promo |-> NoPromo,
     isCastle |-> FALSE, isNull |-> FALSE, move |-> ScidMove(0, 0, NoPromo)]

Marker(t, pulled) ==
    [type |-> t, pulled |-> pulled, from |-> -1, to |-> -1, promo |-> NoPromo,
     isCastle |-> FALSE, isNull |-> FALSE, move |-> ScidMove(0, 0, NoPromo)]

MoveResult(from, to, promo, isCastle, isNull, pulled) ==
    [type |-> "move", pulled |-> pulled, from |-> from, to |-> to, promo |-> promo,
     isCastle |-> isCastle, isNull |-> isNull, move |-> ScidMove(from, to, promo)]

\* `next` is the value readNextByte() returns if it is called; the result's
\* `pulled` tells whether it was called. type "throw": the call threw.
decodeMoveOrMarker(b, byte, next) ==
    LET pieceIndex == (byte \div 16) % 16
        code       == byte % 16
        color      == getSideToMove(b)
    IN
    IF pieceIndex = 0 /\ code >= ENCODE_NAG
    THEN CASE code = ENCODE_NAG -> Marker("nag", TRUE)
           [] code = ENCODE_COMMENT -> Marker("comment", FALSE)
           [] code = ENCODE_START_MARKER -> Marker("startVariation", FALSE)
           [] code = ENCODE_END_MARKER -> Marker("endVariation", FALSE)
           [] OTHER -> Marker("endGame", FALSE)
    ELSE IF ~HasPiece(b, color, pieceIndex)
    THEN Marker("throw", FALSE)             \* piece is undefined: piece.square throws
    ELSE
    LET piece == getPiece(b, color, pieceIndex)
        from  == piece.square
        pieceType == piece.type
    IN  CASE pieceType = KING ->
               LET k == decodeKing(from, code)
               IN  MoveResult(from, k.to, NoPromo, k.isCastle, k.isNull, FALSE)
          [] pieceType = QUEEN ->
               MoveResult(from, decodeQueen(from, code, next), NoPromo, FALSE, FALSE,
                          QueenPulls(from, code))
          [] pieceType = ROOK ->
               MoveResult(from, decodeRook(from, code), NoPromo, FALSE, FALSE, FALSE)
          [] pieceType = BISHOP ->
               MoveResult(from, decodeBishop(from, code), NoPromo, FALSE, FALSE, FALSE)
          [] pieceType = KNIGHT ->
               MoveResult(from, decodeKnight(from, code), NoPromo, FALSE, FALSE, FALSE)
          [] pieceType = PAWN ->
               LET p == decodePawn(from, code, color)
               IN  MoveResult(from, p.to, p.promo, FALSE, FALSE, FALSE)
          [] OTHER -> Marker("throw", FALSE)   \* Unknown piece type

(***************************************************************************)
(* Game-stream parser (scid/game.ts, parseGameData)                        *)
(***************************************************************************)
VARIABLES
    buf,           \* the Buffer: bytes at positions 0..Len(buf)-1
    offset,        \* parseGameData's offset
    length,        \* parseGameData's length
    pos,           \* read position (NaN once a length read past the buffer was added)
    pc,            \* "tags", "flag", "moves", "done" (returned), "thrown" (exception left the call)
    extraTags,     \* tag pairs pushed so far
    startFen,      \* NullFen or the FEN text
    board,         \* the working board
    preMoveBoard,  \* clone taken before the last applied move
    boardStack,    \* boards pushed at variation starts
    depth,         \* the depth counter
    moves,         \* main-line moves pushed so far
    trace,         \* log: one entry per decoded byte or Board call, with the board before it
    reads,         \* log: buffer positions read so far
    heap,          \* the objects of the Board instances, where object identity is followed
    db             \* the fields of a ScidDatabase

vars == <<buf, offset, length, pos, pc, extraTags, startFen, board, preMoveBoard,
          boardStack, depth, moves, trace, reads, heap, db>>

\* no object allocated
NoHeap == [n |-> 0, c |-> <<>>]

\* the field initialisers of ScidDatabase, also what close() assigns
ClosedDb == [codec |-> "null", names |-> <<>>, entries |-> <<>>, gameFilePath |-> <<>>]

\* startFen === null
NullFen == <<-1>>

COMMON_TAGS ==
    <<"Annotator", "PlyCount", "EventType", "EventRounds", "EventCountry", "EventCategory",
      "Source", "SourceDate", "TimeControl", "Board", "Opening", "Variation",
      "SubVariation", "Section", "Stage">>

\* a < b on JavaScript numbers (false when either is NaN or undefined)
Lt(a, b) == IsNum(a) /\ IsNum(b) /\ a < b

\* buf[p]
BufGet(b, p) == IF IsNum(p) /\ p \in 0..(Len(b) - 1) THEN b[p + 1] ELSE Undef

\* buf.toString("latin1", start, e): the bytes of the clipped range
BufSlice(b, start, e) ==
    IF ~IsNum(start) \/ start >= Len(b) THEN <<>>
    ELSE LET e2 == IF ~IsNum(e) THEN 0 ELSE IF e > Len(b) THEN Len(b) ELSE e
         IN  IF e2 <= start THEN <<>> ELSE SubSeq(b, start + 1, e2)

\* positions BufSlice copies
SlicePositions(b, start, e) ==
    IF ~IsNum(start) \/ start >= Len(b) THEN {}
    ELSE LET e2 == IF ~IsNum(e) THEN 0 ELSE IF e > Len(b) THEN Len(b) ELSE e
         IN  start..(e2 - 1)

\* the parser's locals as one record
ParserState(bf, off, len) ==
    [ buf |-> bf, offset |-> off, length |-> len, pos |-> off, pc |-> "tags",
      extraTags |-> <<>>, startFen |-> NullFen, board |-> NewBoard,
      preMoveBoard |-> NewBoard, boardStack |-> <<>>, depth |-> 0, moves |-> <<>>,
      trace |-> <<>>, reads |-> {} ]

End(s) == s.offset + s.length

\* one iteration of the tag loop (lines 43-64), entered with pos < end
ReadTagStep(s) ==
    LET nameLen == BufGet(s.buf, s.pos)
        p1      == s.pos + 1
    IN  IF nameLen = 0
        THEN [s EXCEPT !.pos = p1, !.pc = "flag", !.reads = @ \cup {s.pos}]
        ELSE
        LET common   == IsNum(nameLen) /\ nameLen > 240
            p2       == IF common THEN p1 ELSE Plus(p1, nameLen)
            tagName  == IF common
                        THEN [common |-> COMMON_TAGS[nameLen - 240], text |-> <<>>]
                        ELSE [common |-> "", text |-> BufSlice(s.buf, p1, p2)]
            v0       == BufGet(s.buf, p2)
            p3       == Plus(p2, 1)
            extended == IsNum(v0) /\ v0 > 240
            valueLen == IF extended
                        THEN Plus((v0 - 240) * 256, BufGet(s.buf, p3))
                        ELSE v0
            p4       == IF extended THEN Plus(p3, 1) ELSE p3
            p5       == Plus(p4, valueLen)
            tagValue == BufSlice(s.buf, p4, p5)
            rd       == {s.pos} \cup (IF common THEN {} ELSE SlicePositions(s.buf, p1, p2))
                        \cup (IF IsNum(p2) THEN {p2} ELSE {})
                        \cup (IF extended THEN {p3} ELSE {})
                        \cup SlicePositions(s.buf, p4, p5)
        IN  [s EXCEPT !.pos = p5,
                      !.extraTags = Append(@, <<tagName, tagValue>>),
                      !.reads = @ \cup rd]

\* the tag loop's condition fails (line 43)
EndTagsStep(s) == [s EXCEPT !.pc = "flag"]

\* while (pos < end && buf[pos] !== 0) pos++
RECURSIVE FenScan(_, _, _)
FenScan(b, p, end) ==
    IF p < end /\ BufGet(b, p) # 0 THEN FenScan(b, p + 1, end) ELSE p

\* start-board flag, FEN and board setup (lines 66-95)
StartPositionStep(s) ==
    LET hasFlag  == Lt(s.pos, End(s))
        flagByte == BufGet(s.buf, s.pos)
        custom   == hasFlag /\ IsNum(flagByte) /\ flagByte % 2 = 1
        fenStart == s.pos + 1
        fenEnd   == FenScan(s.buf, fenStart, End(s))
        fen      == IF custom THEN BufSlice(s.buf, fenStart, fenEnd) ELSE NullFen
        p        == IF custom THEN fenEnd + 1
                    ELSE IF hasFlag THEN s.pos + 1 ELSE s.pos
        b        == IF custom /\ fen # <<>>
                    THEN Bind(fen, LAMBDA f : setupFromFEN(NewBoard, f))
                    ELSE setupStartPosition(NewBoard)
        rd       == IF custom THEN s.pos..(IF fenEnd < End(s) THEN fenEnd ELSE fenEnd - 1)
                    ELSE IF hasFlag THEN {s.pos} ELSE {}
    IN  Bind(b, LAMBDA nb :
            [s EXCEPT !.pos = p, !.pc = "moves", !.startFen = fen, !.board = nb,
                      !.preMoveBoard = clone(nb), !.reads = @ \cup rd])

\* a loop that records the moves of every depth
InMainLineAlways(d) == TRUE

\* `if (depth === 0)`: the move belongs to the main line
InMainLine(d) == d = 0

\* a loop that reads on after the end-of-game marker
EndGameStepContinue(s) == s

\* the END_GAME case: return at once
EndGameStep(s) == [s EXCEPT !.pc = "done"]

\* one iteration of the move loop (lines 97-134), entered with pos < end
MoveLoopStep(s) ==
    LET byte    == BufGet(s.buf, s.pos)
        p1      == s.pos + 1
        canPull == p1 < End(s)
        next    == IF canPull THEN BufGet(s.buf, p1) ELSE 0
        r       == decodeMoveOrMarker(s.board, byte, next)
        pulled  == r.pulled /\ canPull
        s1      == [s EXCEPT !.pos = IF pulled THEN p1 + 1 ELSE p1,
                             !.reads = @ \cup {s.pos} \cup (IF pulled THEN {p1} ELSE {}),
                             !.trace = Append(@, [r |-> r, pre |-> s.board])]
    IN  CASE r.type = "throw" -> [s1 EXCEPT !.pc = "thrown"]
          [] r.type = "move" ->
               LET am == applyMove(s.board, r.from, r.to, r.promo, r.isCastle, r.isNull)
                   s2 == [s1 EXCEPT !.moves = IF InMainLine(s.depth) THEN Append(@, r.move) ELSE @,
                                    !.preMoveBoard = clone(s.board)]
               IN  IF am.thrown THEN [s2 EXCEPT !.pc = "thrown"]
                   ELSE [s2 EXCEPT !.board = am.b]
          [] r.type = "startVariation" ->
               [s1 EXCEPT !.depth = @ + 1,
                          !.boardStack = Append(@, s.board),
                          !.board = clone(s.preMoveBoard)]
          [] r.type = "endVariation" ->
               IF Len(s.boardStack) > 0
               THEN [s1 EXCEPT !.board = s.boardStack[Len(s.boardStack)],
                               !.boardStack = SubSeq(@, 1, Len(@) - 1),
                               !.depth = @ - 1]
               ELSE [s1 EXCEPT !.depth = @ - 1]
          [] r.type = "endGame" -> EndGameStep(s1)
          [] OTHER -> s1      \* nag, comment

\* a move loop that does not leave when the range is used up
EndOfRangeStepStay(s) == s

\* the move loop's condition fails: return (line 136)
EndOfRangeStep(s) == [s EXCEPT !.pc = "done"]

\* the next step of the call
ParseStep(s) ==
    CASE s.pc = "tags" -> IF Lt(s.pos, End(s)) THEN ReadTagStep(s) ELSE EndTagsStep(s)
      [] s.pc = "flag" -> StartPositionStep(s)
      [] s.pc = "moves" -> IF Lt(s.pos, End(s)) THEN MoveLoopStep(s) ELSE EndOfRangeStep(s)
      [] OTHER -> s

\* the whole call: the record at "done" or "thrown"
RECURSIVE RunParser(_)
RunParser(s0) ==
    Bind(s0, LAMBDA s :
        IF s.pc \in {"done", "thrown"} THEN s
        ELSE Bind(ParseStep(s), LAMBDA n :
                 IF n.pc = "thrown" THEN n ELSE RunParser(n)))

parseGameData(bf, off, len) == RunParser(ParserState(bf, off, len))

(***************************************************************************)
(* Inputs                                                                  *)
(***************************************************************************)
\* "4k3/8/8/8/8/8/8/4K2R w K - 0 1"
FEN_KR ==
    <<52, 107, 51, 47, 56, 47, 56, 47, 56, 47, 56, 47, 56, 47, 56, 47, 52, 75, 50, 82,
      32, 119, 32, 75, 32, 45, 32, 48, 32, 49>>

\* "r3k2r/8/8/8/8/8/8/R3K2R w KQkq - 0 1"
FEN_CASTLE ==
    <<114, 51, 107, 50, 114, 47, 56, 47, 56, 47, 56, 47, 56, 47, 56, 47, 56, 47, 82, 51,
      75, 50, 82, 32, 119, 32, 75, 81, 107, 113, 32, 45, 32, 48, 32, 49>>

\* "rnbqkbnr/ppp1pppp/8/3pP3/8/8/PPPP1PPP/RNBQKBNR w KQkq d6 0 3"
FEN_EP_WHITE ==
    <<114, 110, 98, 113, 107, 98, 110, 114, 47, 112, 112, 112, 49, 112, 112, 112, 112,
      47, 56, 47, 51, 112, 80, 51, 47, 56, 47, 56, 47, 80, 80, 80, 80, 49, 80, 80, 80,
      47, 82, 78, 66, 81, 75, 66, 78, 82, 32, 119, 32, 75, 81, 107, 113, 32, 100, 54,
      32, 48, 32, 51>>

\* "4k3/8/8/8/R2Pp3/8/8/4K3 b - d3 0 1"
FEN_EP_ROOK ==
    <<52, 107, 51, 47, 56, 47, 56, 47, 56, 47, 82, 50, 80, 112, 51, 47, 56, 47, 56, 47,
      52, 75, 51, 32, 98, 32, 45, 32, 100, 51, 32, 48, 32, 49>>

\* Longest move stream over Bytes, and over VarBytes
MaxLen == 3
MaxVarLen == 6

\* Most Board calls in one behaviour of the Board specification
MaxCalls == 3

\* all sequences over S of length 0..n
SeqsUpTo(S, n) == UNION {[1..k -> S] : k \in 0..n}

\* Move-stream bytes: the five markers; queen (list index 4) with its own file
\* as code; 103 (the second byte naming h5, or knight index 6 code 7); the
\* e-pawn (index 12) double push; king code 2 (south); king code 10 (castle).
Bytes == {11, 12, 13, 14, 15, 67, 103, 207, 2, 10}

\* Variation streams: e-pawn (index 12) one step, variation start and end
VarBytes == {193, 13, 14}

\* Records before the move stream: no tags and the standard start; one
\* common tag (Annotator = "A"); no tags and a custom start position.
HDR_STD == <<0, 0>>
HDR_TAG == <<241, 1, 65, 0, 0>>
HDR_FEN == <<0, 1>> \o FEN_KR \o <<0>>

\* Records that end inside the tag section: empty; a tag and no terminator; a
\* value length that overruns the record; a name code and nothing after it.
TruncatedRecords == {<<>>, <<241, 1, 65>>, <<241, 5, 65>>, <<241>>}

Buffers ==
    {h \o st : h \in {HDR_STD, HDR_TAG, HDR_FEN}, st \in SeqsUpTo(Bytes, MaxLen)}
    \cup {HDR_STD \o st : st \in SeqsUpTo(VarBytes, MaxVarLen)}
    \cup TruncatedRecords

(***************************************************************************)
(* One call parseGameData(buf, 0, buf.length), as getMoves makes it        *)
(***************************************************************************)
Cur ==
    [ buf |-> buf, offset |-> offset, length |-> length, pos |-> pos, pc |-> pc,
      extraTags |-> extraTags, startFen |-> startFen, board |-> board,
      preMoveBoard |-> preMoveBoard, boardStack |-> boardStack, depth |-> depth,
      moves |-> moves, trace |-> trace, reads |-> reads ]

Load(s0) ==
    \E s \in {s0} :
        /\ buf' = s.buf /\ offset' = s.offset /\ length' = s.length
        /\ pos' = s.pos /\ pc' = s.pc
        /\ extraTags' = s.extraTags /\ startFen' = s.startFen
        /\ board' = s.board /\ preMoveBoard' = s.preMoveBoard
        /\ boardStack' = s.boardStack /\ depth' = s.depth
        /\ moves' = s.moves /\ trace' = s.trace /\ reads' = s.reads
        /\ UNCHANGED <<heap, db>>

\* the variables hold the record s
Enter(s) ==
    /\ buf = s.buf /\ offset = s.offset /\ length = s.length
    /\ pos = s.pos /\ pc = s.pc
    /\ extraTags = s.extraTags /\ startFen = s.startFen
    /\ board = s.board /\ preMoveBoard = s.preMoveBoard
    /\ boardStack = s.boardStack /\ depth = s.depth
    /\ moves = s.moves /\ trace = s.trace /\ reads = s.reads
    /\ heap = NoHeap /\ db = ClosedDb

Init == \E bf \in Buffers : Enter(ParserState(bf, 0, Len(bf)))

ReadTag == pc = "tags" /\ Lt(pos, offset + length) /\ Load(ReadTagStep(Cur))

EndTags == pc = "tags" /\ ~Lt(pos, offset + length) /\ Load(EndTagsStep(Cur))

StartPosition == pc = "flag" /\ Load(StartPositionStep(Cur))

MoveLoop == pc = "moves" /\ Lt(pos, offset + length) /\ Load(MoveLoopStep(Cur))

EndOfRange == pc = "moves" /\ ~Lt(pos, offset + length) /\ Load(EndOfRangeStep(Cur))

Next == ReadTag \/ EndTags \/ StartPosition \/ MoveLoop \/ EndOfRange

Spec == Init /\ [][Next]_vars

(***************************************************************************)
(* The Board API driven directly (as scid/board.test.ts does); `trace`     *)
(* holds the last call and the board before it, `pos` counts the calls.    *)
(***************************************************************************)
ApiFens == {FEN_KR, FEN_CASTLE, FEN_EP_WHITE, FEN_EP_ROOK}

\* c1 d1 e1 f1 g1, e5 d6, e4 d3, e8 g8
ApiSquares == {2, 3, 4, 5, 6, 36, 43, 28, 19, 60, 62}

\* from/to of the null-move calls
NullSquares == {4, 36}

ApiPromos == {NoPromo, QUEEN}

ApiCall(name, from, to, promo, isCastle, isNull) ==
    [type |-> name, pulled |-> FALSE, from |-> from, to |-> to, promo |-> promo,
     isCastle |-> isCastle, isNull |-> isNull, move |-> ScidMove(0, 0, NoPromo)]

BoardInit ==
    /\ buf = <<>> /\ offset = 0 /\ length = 0 /\ pos = 0 /\ pc = "api"
    /\ extraTags = <<>> /\ startFen = NullFen
    /\ board = NewBoard /\ preMoveBoard = NewBoard /\ boardStack = <<>>
    /\ depth = 0 /\ moves = <<>> /\ trace = <<>> /\ reads = {}
    /\ heap = NoHeap /\ db = ClosedDb

ApiFrame ==
    UNCHANGED <<buf, offset, length, pc, extraTags, startFen, preMoveBoard,
                boardStack, depth, moves, reads, heap, db>>

CallSetupStartPosition ==
    /\ pc = "api" /\ pos < MaxCalls
    /\ board' = setupStartPosition(board)
    /\ trace' = <<[r |-> ApiCall("setupStartPosition", -1, -1, NoPromo, FALSE, FALSE),
                   pre |-> board]>>
    /\ pos' = pos + 1
    /\ ApiFrame

CallSetupFromFEN ==
    /\ pc = "api" /\ pos < MaxCalls
    /\ \E fen \in ApiFens :
          /\ board' = setupFromFEN(board, fen)
          /\ trace' = <<[r |-> ApiCall("setupFromFEN", -1, -1, NoPromo, FALSE, FALSE),
                         pre |-> board]>>
    /\ pos' = pos + 1
    /\ ApiFrame

\* applyMove(from, to, promo, isCastle, false) on a board that was set up
CallApplyMove ==
    /\ pc = "api" /\ pos < MaxCalls /\ trace # <<>>
    /\ \E from \in ApiSquares, to \in ApiSquares, promo \in ApiPromos, isCastle \in BOOLEAN :
          /\ board' = applyMove(board, from, to, promo, isCastle, FALSE).b
          /\ trace' = <<[r |-> ApiCall("applyMove", from, to, promo, isCastle, FALSE),
                         pre |-> board]>>
    /\ pos' = pos + 1
    /\ ApiFrame

\* applyMove(from, to, promo, isCastle, true)
CallNullMove ==
    /\ pc = "api" /\ pos < MaxCalls /\ trace # <<>>
    /\ \E from \in NullSquares, to \in NullSquares, promo \in ApiPromos, isCastle \in BOOLEAN :
          /\ board' = applyMove(board, from, to, promo, isCastle, TRUE).b
          /\ trace' = <<[r |-> ApiCall("applyMove", from, to, promo, isCastle, TRUE),
                         pre |-> board]>>
    /\ pos' = pos + 1
    /\ ApiFrame

BoardNext == CallSetupStartPosition \/ CallSetupFromFEN \/ CallApplyMove \/ CallNullMove

BoardSpec == BoardInit /\ [][BoardNext]_vars

(***************************************************************************)
(* Reading the log of decoded bytes                                        *)
(***************************************************************************)
\* variation nesting in front of entry i of a log, counted from its markers
RECURSIVE NestBefore(_, _)
NestBefore(t, i) ==
    IF i <= 1 THEN 0
    ELSE NestBefore(t, i - 1)
         + (CASE t[i - 1].r.type = "startVariation" -> 1
              [] t[i - 1].r.type = "endVariation" -> -1
              [] OTHER -> 0)

\* every variation-start has its variation-end and no end comes unopened
Bracketed(t) ==
    /\ \A i \in 1..(Len(t) + 1) : NestBefore(t, i) >= 0
    /\ NestBefore(t, Len(t) + 1) = 0

\* the decoded moves of a log that stand outside every variation
RECURSIVE MainLineOf(_, _)
MainLineOf(t, i) ==
    IF i = 0 THEN <<>>
    ELSE IF t[i].r.type = "move" /\ NestBefore(t, i) = 0
         THEN Append(MainLineOf(t, i - 1), t[i].r)
         ELSE MainLineOf(t, i - 1)

\* a board after the decoded moves rs[1..n]
RECURSIVE ApplyAll(_, _, _)
ApplyAll(b, rs, n) ==
    IF n = 0 THEN b
    ELSE LET r == rs[n]
         IN  applyMove(ApplyAll(b, rs, n - 1), r.from, r.to, r.promo, r.isCastle, r.isNull).b

\* the board the move loop starts from
StartBoard ==
    IF startFen # NullFen /\ startFen # <<>>
    THEN setupFromFEN(NewBoard, startFen)
    ELSE setupStartPosition(NewBoard)

TypesOf(t) == [i \in 1..Len(t) |-> t[i].r.type]

(***************************************************************************)
(* C1                                                                      *)
(***************************************************************************)
\* C1: when the call returns on a properly bracketed stream, the main line it
\* returns is exactly the moves decoded outside every variation, in order, and
\* the working board is the start board with only those moves applied.
C1_MainLineOnly ==
    (pc = "done" /\ Bracketed(trace)) =>
        LET ml == MainLineOf(trace, Len(trace))
        IN  /\ moves = [i \in 1..Len(ml) |-> ml[i].move]
            /\ board = ApplyAll(StartBoard, ml, Len(ml))

\* move, variation-start, move, variation-end, move: two main-line moves
C1_Witness ==
    /\ pc = "done"
    /\ TypesOf(trace) = <<"move", "startVariation", "move", "endVariation", "move">>
    /\ Len(moves) = 2
    /\ board # trace[3].pre

(***************************************************************************)
(* C2                                                                      *)
(***************************************************************************)
\* the board after entry i of the log was handled
BoardAfter(i) == IF i < Len(trace) THEN trace[i + 1].pre ELSE board

\* the position in front of the most recent move of the line that is open
\* after entries 1..j of a log; level counts the closed variations skipped
RECURSIVE BranchScan(_, _, _)
BranchScan(t, j, level) ==
    IF j = 0 THEN [found |-> FALSE, b |-> NewBoard]
    ELSE CASE t[j].r.type = "endVariation" -> BranchScan(t, j - 1, level + 1)
           [] t[j].r.type = "startVariation" ->
                IF level = 0 THEN [found |-> FALSE, b |-> NewBoard]
                ELSE BranchScan(t, j - 1, level - 1)
           [] t[j].r.type = "move" ->
                IF level = 0 THEN [found |-> TRUE, b |-> t[j].pre]
                ELSE BranchScan(t, j - 1, level)
           [] OTHER -> BranchScan(t, j - 1, level)

\* C2: at every variation-start marker the working board becomes the position
\* in front of the most recent move of the enclosing line, whatever variations
\* were opened and closed since that move.
C2_VariationFromBeforeLastMove ==
    \A i \in 1..Len(trace) :
        ( /\ trace[i].r.type = "startVariation"
          /\ \A k \in 1..i : NestBefore(trace, k) >= 0
          /\ BranchScan(trace, i - 1, 0).found )
        => BoardAfter(i) = BranchScan(trace, i - 1, 0).b

(***************************************************************************)
(* C3                                                                      *)
(***************************************************************************)
\* C3: a fault raised while decoding or applying a move never leaves
\* parseGameData: the call ends by returning, with the moves gathered so far.
C3_FaultNotPropagated == pc # "thrown"

(***************************************************************************)
(* C4                                                                      *)
(***************************************************************************)
IsPrefix(a, b) == Len(a) <= Len(b) /\ \A i \in 1..Len(a) : a[i] = b[i]

\* C4: for every k, the call on the first k bytes of the range returns, and
\* what it returns is a prefix of the main line of the untruncated range.
C4_TruncationGivesPrefix ==
    pc = "done" =>
        \A k \in 0..length :
            LET r == parseGameData(buf, offset, k)
            IN  r.pc = "done" /\ IsPrefix(r.moves, moves)

(***************************************************************************)
(* C5                                                                      *)
(***************************************************************************)
\* C5: the end-of-game marker is the last byte the call handles, at any depth:
\* the call has returned, no byte behind the marker was read, and the result
\* is the one of the record cut off right behind the marker.
C5_EndGameTerminates ==
    \A i \in 1..Len(trace) :
        trace[i].r.type = "endGame" =>
            /\ i = Len(trace)
            /\ pc = "done"
            /\ (pos - 1) \in reads
            /\ \A p \in reads : p < pos
            /\ LET r == parseGameData(SubSeq(buf, 1, pos), offset, pos - offset)
               IN  /\ r.pc = "done"
                   /\ r.moves = moves
                   /\ r.extraTags = extraTags
                   /\ r.startFen = startFen

\* the marker met inside a variation, with a byte of the range behind it
C5_Witness ==
    /\ pc = "done"
    /\ trace # <<>>
    /\ trace[Len(trace)].r.type = "endGame"
    /\ depth > 0
    /\ pos < offset + length

(***************************************************************************)
(* C6, C7 (checked under BoardSpec)                                        *)
(***************************************************************************)
\* C6: once a setup has placed both kings, after any sequence of applyMove
\* calls entry 0 of each colour's piece list is that colour's king, as long as
\* the colour has a piece.
C6_KingIsEntryZero ==
    \A c \in {WHITE, BLACK} :
        (trace # <<>> /\ getPieceCount(board, c) >= 1) =>
            (HasPiece(board, c, 0) /\ getPiece(board, c, 0).type = KING)

\* C7: after a setup and any sequence of applyMove calls, board[sq] = slot
\* exactly when the slot's piece records square sq.
C7_SquareMapInverse ==
    trace # <<>> =>
        \A sq \in 0..63 : \A i \in DOMAIN board.pieces :
            (board.board[sq] = i) <=> (board.pieces[i].square = sq)

(***************************************************************************)
(* C8                                                                      *)
(***************************************************************************)
AlgebraicName(sq) == <<FILE_CHARS[(sq % 8) + 1], RANK_CHARS[(sq \div 8) + 1]>>

WellFormedSquare(t) ==
    /\ t[1] \in {"a", "b", "c", "d", "e", "f", "g", "h"}
    /\ t[2] \in {"1", "2", "3", "4", "5", "6", "7", "8"}

\* C8: every move the decoder hands out has endpoints on the board, and its
\* two texts are the file a-h and rank 1-8 of those endpoints.
C8_MovesAreWellFormed ==
    \A i \in 1..Len(trace) :
        trace[i].r.type = "move" =>
            LET r == trace[i].r
            IN  /\ WellFormedSquare(r.move.from)
                /\ WellFormedSquare(r.move.to)
                /\ r.from \in 0..63
                /\ r.to \in 0..63
                /\ r.move.from = AlgebraicName(r.from)
                /\ r.move.to = AlgebraicName(r.to)

(***************************************************************************)
(* C9 (checked under BoardSpec)                                            *)
(***************************************************************************)
\* the last call and the board it was made on
LastCall == trace[1].r
PreBoard == trace[1].pre

\* the corner of the king's rank on the side the king moves to
CornerOf(from, to) ==
    IF to > from THEN squareRank(from) * 8 + 7 ELSE squareRank(from) * 8

\* the last call castled a king standing on `from` two files toward a side
\* whose corner holds a rook
CastleCall ==
    /\ trace # <<>>
    /\ LastCall.type = "applyMove"
    /\ LastCall.isCastle
    /\ ~LastCall.isNull
    /\ LET from == LastCall.from
           to   == LastCall.to
       IN  /\ PreBoard.board[from] >= 0
           /\ PreBoard.pieces[PreBoard.board[from]].type = KING
           /\ to \in {from - 2, from + 2}
           /\ squareRank(to) = squareRank(from)
           /\ PreBoard.board[CornerOf(from, to)] >= 0
           /\ PreBoard.pieces[PreBoard.board[CornerOf(from, to)]].type = ROOK

\* king on `to`, that rook between `from` and `to`, corner and `from` empty
CastleDone ==
    LET from == LastCall.from
        to   == LastCall.to
    IN  /\ board.board[to] = PreBoard.board[from]
        /\ board.board[(from + to) \div 2] = PreBoard.board[CornerOf(from, to)]
        /\ board.board[CornerOf(from, to)] = -1
        /\ board.board[from] = -1

\* C9 as stated: after a castling applyMove of a king on any file, the king is
\* on `to`, the corner rook on the square between `from` and `to`, and the
\* corner and `from` are empty.
C9_CastleAnyFile == CastleCall => CastleDone

\* C9 for a king on the e-file: after a castling applyMove the king is on `to`,
\* the corner rook on the square between `from` and `to` (f-file or d-file),
\* and the corner and `from` are empty.
C9_CastleFromEFile == (CastleCall /\ squareFile(LastCall.from) = 4) => CastleDone

\* a queenside castling of a king on the e-file
C9_Witness ==
    /\ CastleCall
    /\ squareFile(LastCall.from) = 4
    /\ LastCall.to = LastCall.from - 2
    /\ board.board[LastCall.from - 1] = PreBoard.board[CornerOf(LastCall.from, LastCall.to)]

(***************************************************************************)
(* C10 (checked under BoardSpec)                                           *)
(***************************************************************************)
\* the square of the pawn that an en-passant capture onto `to` takes
CapturedPawnSquare == IF PreBoard.sideToMove = WHITE THEN LastCall.to - 8 ELSE LastCall.to + 8

\* the last call moved a pawn of the side to move onto the empty en-passant
\* square, with an enemy pawn one rank behind that square
EnPassantCall ==
    /\ trace # <<>>
    /\ LastCall.type = "applyMove"
    /\ ~LastCall.isNull
    /\ PreBoard.board[LastCall.from] >= 0
    /\ PreBoard.pieces[PreBoard.board[LastCall.from]].type = PAWN
    /\ PreBoard.pieces[PreBoard.board[LastCall.from]].color = PreBoard.sideToMove
    /\ PreBoard.epSquare \in 0..63
    /\ LastCall.to = PreBoard.epSquare
    /\ PreBoard.board[LastCall.to] = -1
    /\ CapturedPawnSquare \in 0..63
    /\ PreBoard.board[CapturedPawnSquare] >= 0
    /\ PreBoard.pieces[PreBoard.board[CapturedPawnSquare]].type = PAWN
    /\ PreBoard.pieces[PreBoard.board[CapturedPawnSquare]].color = 1 - PreBoard.sideToMove

\* the captured pawn's square and the origin are empty, the destination holds
\* the moving pawn, the opponent lost one piece and the mover none
EnPassantDone ==
    LET mover == PreBoard.sideToMove
        m     == PreBoard.board[LastCall.from]
    IN  /\ board.board[CapturedPawnSquare] = -1
        /\ board.board[LastCall.from] = -1
        /\ board.board[LastCall.to] = m
        /\ board.pieces[m].square = LastCall.to
        /\ board.pieces[m].color = mover
        /\ (LastCall.promo = NoPromo => board.pieces[m].type = PAWN)
        /\ getPieceCount(board, 1 - mover) = getPieceCount(PreBoard, 1 - mover) - 1
        /\ getPieceCount(board, mover) = getPieceCount(PreBoard, mover)

\* C10 as stated: after applyMove of a pawn capturing onto the en-passant
\* square, the captured pawn's square and the origin are empty, the destination
\* holds the moving pawn, and only the opponent's piece count dropped, by one.
C10_EnPassant == EnPassantCall => EnPassantDone

\* C10 for a call with isCastle unset and a captured pawn that is an entry of
\* its colour's piece list: the same postcondition.
C10_EnPassantNoCastle ==
    ( /\ EnPassantCall
      /\ ~LastCall.isCastle
      /\ IndexOf(PreBoard.list[1 - PreBoard.sideToMove],
                 PreBoard.board[CapturedPawnSquare]) >= 0 )
    => EnPassantDone

\* an en-passant capture by a call with isCastle unset
C10_Witness ==
    /\ EnPassantCall
    /\ ~LastCall.isCastle
    /\ getPieceCount(board, 1 - PreBoard.sideToMove)
          = getPieceCount(PreBoard, 1 - PreBoard.sideToMove) - 1
    /\ PreBoard.board[CapturedPawnSquare] >= 0
    /\ board.board[CapturedPawnSquare] = -1

(***************************************************************************)
(* C11, C12 (checked under BoardSpec)                                      *)
(***************************************************************************)
\* C11: applyMove with isNull set flips the side to move, sets the en-passant
\* square to none and changes nothing else of the board, whatever from, to,
\* promotion and isCastle are.
C11_NullMoveFrame ==
    (trace # <<>> /\ LastCall.type = "applyMove" /\ LastCall.isNull) =>
        /\ board.sideToMove = 1 - PreBoard.sideToMove
        /\ board.epSquare = -1
        /\ board.board = PreBoard.board
        /\ board.pieces = PreBoard.pieces
        /\ board.list = PreBoard.list
        /\ board.listCount = PreBoard.listCount

\* a null move with a promotion and distinct occupied from/to, made while an
\* en-passant square was set
C11_Witness ==
    /\ trace # <<>>
    /\ LastCall.type = "applyMove"
    /\ LastCall.isNull
    /\ LastCall.promo = QUEEN
    /\ LastCall.isCastle
    /\ LastCall.from # LastCall.to
    /\ PreBoard.board[LastCall.from] >= 0
    /\ PreBoard.epSquare >= 0
    /\ board.epSquare = -1

\* C12: a non-null applyMove from an empty square returns without an error
\* and leaves the whole board as it was, side to move and en-passant square
\* included.
C12_EmptyFromNoOp ==
    ( /\ trace # <<>>
      /\ LastCall.type = "applyMove"
      /\ ~LastCall.isNull
      /\ PreBoard.board[LastCall.from] = -1 )
    => /\ board = PreBoard
       /\ ~applyMove(PreBoard, LastCall.from, LastCall.to, LastCall.promo,
                     LastCall.isCastle, LastCall.isNull).thrown

\* a castling, promoting move from an empty square onto an occupied one, made
\* while an en-passant square was set
C12_Witness ==
    /\ trace # <<>>
    /\ LastCall.type = "applyMove"
    /\ ~LastCall.isNull
    /\ PreBoard.board[LastCall.from] = -1
    /\ PreBoard.board[LastCall.to] >= 0
    /\ LastCall.isCastle
    /\ LastCall.promo = QUEEN
    /\ PreBoard.epSquare >= 0
    /\ board.epSquare = PreBoard.epSquare

(***************************************************************************)
(* Board instances as objects: `heap` holds every array and object a Board *)
(* refers to; board, preMoveBoard and boardStack hold references (0: no    *)
(* object yet), as the variables of parseGameData and of a test do.        *)
(***************************************************************************)
Cell(k, v) == [k |-> k, v |-> v]

\* a new object or array: the next free reference
Alloc(h, cell) == [h |-> [n |-> h.n + 1, c |-> h.c @@ ((h.n + 1) :> cell)], a |-> h.n + 1]

\* v written into the object at reference a
HeapSet(h, a, v) == [h EXCEPT !.c[a].v = v]

\* a copy that hands out the original's piece object
PieceCopyShared(h, pa) == [h |-> h, a |-> pa]

\* `({ ...p })`: a new piece object with the fields of p
PieceCopy(h, pa) == Alloc(h, h.c[pa])

\* this.pieces.map(p => ({ ...p })): the new array's entries, from index i on
RECURSIVE CopyPieces(_, _, _, _)
CopyPieces(h, arr, i, acc) ==
    IF i \notin DOMAIN arr THEN [h |-> h, v |-> acc]
    ELSE LET r == PieceCopy(h, arr[i])
         IN  IF r.h.n >= 0 THEN CopyPieces(r.h, arr, i + 1, acc @@ (i :> r.a))
             ELSE [h |-> h, v |-> acc]

\* new piece objects for the values ps[i], i in idxs; other entries keep arr[i]
RECURSIVE FreshPieces(_, _, _, _, _)
FreshPieces(h, ps, arr, i, acc) ==
    IF i \notin DOMAIN ps THEN [h |-> h, v |-> acc]
    ELSE IF i < 32 \/ i \notin DOMAIN arr
         THEN LET r == Alloc(h, Cell("piece", ps[i]))
              IN  IF r.h.n >= 0 THEN FreshPieces(r.h, ps, arr, i + 1, acc @@ (i :> r.a))
                  ELSE [h |-> h, v |-> acc]
         ELSE FreshPieces(h, ps, arr, i + 1, acc @@ (i :> arr[i]))

\* new Board(): the field initialisers and the constructor
NewBoardObject(h) ==
    LET r1 == Alloc(h, Cell("Int8Array", NewBoard.board))
        r2 == FreshPieces(r1.h, NewBoard.pieces, <<>>, 0, <<>>)
        r3 == Alloc(r2.h, Cell("pieces", r2.v))
        r4 == Alloc(r3.h, Cell("ints", <<>>))
        r5 == Alloc(r4.h, Cell("ints", <<>>))
        r6 == Alloc(r5.h, Cell("list", [c \in 0..1 |-> IF c = WHITE THEN r4.a ELSE r5.a]))
        r7 == Alloc(r6.h, Cell("listCount", NewBoard.listCount))
    IN  Alloc(r7.h, Cell("Board", [board |-> r1.a, pieces |-> r3.a, list |-> r6.a,
                                   listCount |-> r7.a, sideToMove |-> WHITE,
                                   epSquare |-> -1]))

\* clone() on the Board at reference a (the arrays `new Board()` makes and
\* clone() drops at once are left out)
CloneObject(h, a) ==
    LET src == h.c[a].v
        r1 == Alloc(h, h.c[src.board])
        r2 == CopyPieces(r1.h, h.c[src.pieces].v, 0, <<>>)
        r3 == Alloc(r2.h, Cell("pieces", r2.v))
        r4 == Alloc(r3.h, h.c[h.c[src.list].v[WHITE]])
        r5 == Alloc(r4.h, h.c[h.c[src.list].v[BLACK]])
        r6 == Alloc(r5.h, Cell("list", [c \in 0..1 |-> IF c = WHITE THEN r4.a ELSE r5.a]))
        r7 == Alloc(r6.h, h.c[src.listCount])
    IN  Alloc(r7.h, Cell("Board", [board |-> r1.a, pieces |-> r3.a, list |-> r6.a,
                                   listCount |-> r7.a, sideToMove |-> src.sideToMove,
                                   epSquare |-> src.epSquare]))

\* what the Board at reference a shows: its fields followed through the heap
Deref(h, a) ==
    LET o == h.c[a].v
    IN  [ board      |-> h.c[o.board].v,
          pieces     |-> [i \in DOMAIN h.c[o.pieces].v |-> h.c[h.c[o.pieces].v[i]].v],
          list       |-> [c \in 0..1 |-> h.c[h.c[o.list].v[c]].v],
          listCount  |-> h.c[o.listCount].v,
          sideToMove |-> o.sideToMove,
          epSquare   |-> o.epSquare ]

\* the references reachable from the Board at reference a, itself included
CellsOf(h, a) ==
    LET o == h.c[a].v
    IN  {a, o.board, o.pieces, o.list, o.listCount}
        \cup {h.c[o.pieces].v[i] : i \in DOMAIN h.c[o.pieces].v}
        \cup {h.c[o.list].v[c] : c \in 0..1}

\* a method that writes through `this` only (applyMove): the board value nb
\* stored into the arrays and objects the Board at reference a already has
StoreInPlace(h, a, nb) ==
    LET o    == h.c[a].v
        parr == h.c[o.pieces].v
        lst  == h.c[o.list].v
    IN  [h EXCEPT !.c =
          [x \in DOMAIN h.c |->
             IF x = a
             THEN Cell("Board", [o EXCEPT !.sideToMove = nb.sideToMove,
                                          !.epSquare = nb.epSquare])
             ELSE IF x = o.board THEN Cell("Int8Array", nb.board)
             ELSE IF x = o.listCount THEN Cell("listCount", nb.listCount)
             ELSE IF x = lst[WHITE] THEN Cell("ints", nb.list[WHITE])
             ELSE IF x = lst[BLACK] THEN Cell("ints", nb.list[BLACK])
             ELSE IF \E i \in DOMAIN parr : parr[i] = x
             THEN Cell("piece", nb.pieces[CHOOSE i \in DOMAIN parr : parr[i] = x])
             ELSE h.c[x]]]

\* a setup method: board filled in place, new piece objects put into the
\* pieces array, new list arrays put into `list`, a new listCount array
StoreSetup(h, a, nb) ==
    LET o  == h.c[a].v
        r1 == FreshPieces(h, nb.pieces, h.c[o.pieces].v, 0, <<>>)
        r2 == Alloc(r1.h, Cell("ints", nb.list[WHITE]))
        r3 == Alloc(r2.h, Cell("ints", nb.list[BLACK]))
        r4 == Alloc(r3.h, Cell("listCount", nb.listCount))
        h1 == HeapSet(r4.h, o.board, nb.board)
        h2 == HeapSet(h1, o.pieces, r1.v)
        h3 == HeapSet(h2, o.list, [c \in 0..1 |-> IF c = WHITE THEN r2.a ELSE r3.a])
    IN  HeapSet(h3, a, [o EXCEPT !.listCount = r4.a,
                                !.sideToMove = nb.sideToMove,
                                !.epSquare = nb.epSquare])

applyMoveObject(h, a, from, to, promo, isCastle, isNull) ==
    StoreInPlace(h, a, applyMove(Deref(h, a), from, to, promo, isCastle, isNull).b)

\* Longest sequence of steps on the Board objects
MaxHeapOps == 5

\* e2-e4, castling e1-g1, a promotion on the spot, e2 takes e1
HeapMoves == {<<12, 28, NoPromo, FALSE>>, <<4, 6, NoPromo, TRUE>>,
              <<12, 12, QUEEN, FALSE>>, <<12, 4, NoPromo, FALSE>>}

HeapFens == {FEN_KR}

Range(f) == {f[i] : i \in DOMAIN f}

\* the Board objects the variables refer to
Live == {board} \cup (IF preMoveBoard # 0 THEN {preMoveBoard} ELSE {}) \cup Range(boardStack)

\* what every live Board shows
Snapshot == [o \in Live |-> Deref(heap, o)]

HeapLog(name, target) ==
    <<[r |-> ApiCall(name, -1, -1, NoPromo, FALSE, FALSE), target |-> target,
       pre |-> Snapshot]>>

\* `let board = new Board()`
HeapInit ==
    /\ buf = <<>> /\ offset = 0 /\ length = 0 /\ pos = 0 /\ pc = "heap"
    /\ extraTags = <<>> /\ startFen = NullFen
    /\ heap = NewBoardObject(NoHeap).h
    /\ board = NewBoardObject(NoHeap).a
    /\ preMoveBoard = 0 /\ boardStack = <<>>
    /\ depth = 0 /\ moves = <<>> /\ trace = <<>> /\ reads = {}
    /\ db = ClosedDb

HeapFrame == UNCHANGED <<buf, offset, length, pc, extraTags, startFen, moves, reads, db>>

HeapStep == pc = "heap" /\ pos < MaxHeapOps /\ pos' = pos + 1 /\ HeapFrame

\* t.setupStartPosition()
ObjSetupStartPosition ==
    /\ HeapStep
    /\ \E t \in Live :
          /\ heap' = StoreSetup(heap, t, setupStartPosition(Deref(heap, t)))
          /\ trace' = HeapLog("setupStartPosition", t)
    /\ UNCHANGED <<board, preMoveBoard, boardStack, depth>>

\* t.setupFromFEN(fen)
ObjSetupFromFEN ==
    /\ HeapStep
    /\ \E t \in Live, fen \in HeapFens :
          /\ heap' = StoreSetup(heap, t, setupFromFEN(Deref(heap, t), fen))
          /\ trace' = HeapLog("setupFromFEN", t)
    /\ UNCHANGED <<board, preMoveBoard, boardStack, depth>>

\* t.applyMove(from, to, promo, isCastle, false)
ObjApplyMove ==
    /\ HeapStep
    /\ \E t \in Live, m \in HeapMoves :
          /\ heap' = applyMoveObject(heap, t, m[1], m[2], m[3], m[4], FALSE)
          /\ trace' = HeapLog("applyMove", t)
    /\ UNCHANGED <<board, preMoveBoard, boardStack, depth>>

\* `preMoveBoard = board.clone()` (game.ts line 95; `clone = board.clone()` in the test)
ObjClone ==
    /\ HeapStep
    /\ LET r == CloneObject(heap, board)
       IN  heap' = r.h /\ preMoveBoard' = r.a
    /\ trace' = HeapLog("clone", 0)
    /\ UNCHANGED <<board, boardStack, depth>>

\* the "move" branch of the loop: preMoveBoard = board.clone(); board.applyMove(...)
ParseMove ==
    /\ HeapStep /\ preMoveBoard # 0
    /\ \E m \in HeapMoves :
          LET r == CloneObject(heap, board)
          IN  /\ heap' = applyMoveObject(r.h, board, m[1], m[2], m[3], m[4], FALSE)
              /\ preMoveBoard' = r.a
    /\ trace' = HeapLog("move", board)
    /\ UNCHANGED <<board, boardStack, depth>>

\* case "startVariation": boardStack.push(board); board = preMoveBoard.clone()
ParseStartVariation ==
    /\ HeapStep /\ preMoveBoard # 0
    /\ LET r == CloneObject(heap, preMoveBoard)
       IN  heap' = r.h /\ board' = r.a
    /\ boardStack' = Append(boardStack, board)
    /\ depth' = depth + 1
    /\ trace' = HeapLog("startVariation", 0)
    /\ UNCHANGED preMoveBoard

\* case "endVariation": board = boardStack.pop() if there is one
ParseEndVariation ==
    /\ HeapStep /\ preMoveBoard # 0
    /\ IF Len(boardStack) > 0
       THEN /\ board' = boardStack[Len(boardStack)]
            /\ boardStack' = SubSeq(boardStack, 1, Len(boardStack) - 1)
       ELSE UNCHANGED <<board, boardStack>>
    /\ depth' = depth - 1
    /\ trace' = HeapLog("endVariation", 0)
    /\ UNCHANGED <<preMoveBoard, heap>>

HeapNext ==
    \/ ObjSetupStartPosition \/ ObjSetupFromFEN \/ ObjApplyMove \/ ObjClone
    \/ ParseMove \/ ParseStartVariation \/ ParseEndVariation

HeapSpec == HeapInit /\ [][HeapNext]_vars

(***************************************************************************)
(* C13 (checked under HeapSpec)                                            *)
(***************************************************************************)
\* C13: a clone shares nothing with its original. (a) A step made on one
\* Board object leaves what every other live Board object shows as it was.
\* (b) The working board, preMoveBoard and the boards on the variation stack
\* are distinct objects and no array or piece object belongs to two of them.
C13_CloneIndependent ==
    /\ trace # <<>> =>
         \A o \in Live :
            (o \in DOMAIN trace[1].pre /\ o # trace[1].target)
            => Deref(heap, o) = trace[1].pre[o]
    /\ \A o1 \in Live : \A o2 \in Live :
         o1 # o2 => CellsOf(heap, o1) \cap CellsOf(heap, o2) = {}
    /\ board # preMoveBoard
    /\ \A i \in 1..Len(boardStack) :
         /\ boardStack[i] \notin {board, preMoveBoard}
         /\ \A j \in 1..Len(boardStack) : i # j => boardStack[i] # boardStack[j]

\* a move applied to the working board while a clone of its former state and
\* a pushed board are alive, and the move changed the working board
C13_Witness ==
    /\ trace # <<>>
    /\ trace[1].r.type \in {"applyMove", "move"}
    /\ trace[1].target = board
    /\ preMoveBoard # 0
    /\ Len(boardStack) > 0
    /\ Deref(heap, board) # trace[1].pre[board]
    /\ Deref(heap, preMoveBoard) # Deref(heap, board)

(***************************************************************************)
(* Strings of the database layer: a string is a sequence of one-character  *)
(* strings.                                                                *)
(***************************************************************************)
DIGIT_CHARS == <<"0", "1", "2", "3", "4", "5", "6", "7", "8", "9">>

UPPER_CHARS ==
    <<"A", "B", "C", "D", "E", "F", "G", "H", "I", "J", "K", "L", "M",
      "N", "O", "P", "Q", "R", "S", "T", "U", "V", "W", "X", "Y", "Z">>

LOWER_CHARS ==
    <<"a", "b", "c", "d", "e", "f", "g", "h", "i", "j", "k", "l", "m",
      "n", "o", "p", "q", "r", "s", "t", "u", "v", "w", "x", "y", "z">>

\* String.fromCharCode(code); only codes of Latin letters are passed
fromCharCode(code) ==
    IF code >= 65 /\ code <= 90 THEN <<UPPER_CHARS[code - 64]>>
    ELSE IF code >= 97 /\ code <= 122 THEN <<LOWER_CHARS[code - 96]>>
    ELSE <<"#">>

\* n copies of x
Repeat(x, n) == SubSeq([i \in 1..n |-> x], 1, n)

\* String(n) for an integer 0 <= n < 10^9
NumberToString(n) ==
    LET k == CHOOSE j \in 1..9 : n < 10 ^ j /\ (j = 1 \/ n >= 10 ^ (j - 1))
    IN  SubSeq([i \in 1..k |-> DIGIT_CHARS[((n \div (10 ^ (k - i))) % 10) + 1]], 1, k)

\* s.padStart(n, c) for a single character c
padStart(s, n, c) == Repeat(c, n - Len(s)) \o s

\* c.toLowerCase() for one character
LowerChar(c) ==
    IF \E k \in 1..26 : UPPER_CHARS[k] = c
    THEN LOWER_CHARS[CHOOSE k \in 1..26 : UPPER_CHARS[k] = c]
    ELSE c

\* s.toLowerCase()
toLowerCase(s) == SubSeq([i \in 1..Len(s) |-> LowerChar(s[i])], 1, Len(s))

\* s.includes(q)
includes(s, q) ==
    \E i \in 0..(Len(s) - Len(q)) : \A j \in 1..Len(q) : s[i + j] = q[j]

\* x >> k, x << k and x & (2^k - 1) for 0 <= x < 2^31 and results below 2^31
Shr(x, k) == x \div (2 ^ k)
Shl(x, k) == x * (2 ^ k)
LowBits(x, k) == x % (2 ^ k)

(***************************************************************************)
(* Field decoding shared by both codecs (types.ts)                         *)
(***************************************************************************)
RESULT_NONE == 0
RESULT_WHITE == 1
RESULT_BLACK == 2
RESULT_DRAW == 3

resultToString(r) ==
    CASE r = RESULT_WHITE -> <<"1", "-", "0">>
      [] r = RESULT_BLACK -> <<"0", "-", "1">>
      [] r = RESULT_DRAW -> <<"1", "/", "2", "-", "1", "/", "2">>
      [] OTHER -> <<"*">>

decodeDate(d) ==
    IF d = 0 THEN <<"?", "?", "?", "?", ".", "?", "?", ".", "?", "?">>
    ELSE LET dd == LowBits(d, 5)
             m == LowBits(Shr(d, 5), 4)
             y == Shr(d, 9)
             ys == IF y = 0 THEN <<"?", "?", "?", "?">> ELSE padStart(NumberToString(y), 4, "0")
             ms == IF m = 0 THEN <<"?", "?">> ELSE padStart(NumberToString(m), 2, "0")
             ds == IF dd = 0 THEN <<"?", "?">> ELSE padStart(NumberToString(dd), 2, "0")
         IN  ys \o <<".">> \o ms \o <<".">> \o ds

decodeEco(eco) ==
    IF eco = 0 THEN <<>>
    ELSE LET subcode == LowBits(eco, 2)
             digits == Shr(eco, 2) % 100
             letter == eco \div 400
             base == fromCharCode(65 + letter) \o padStart(NumberToString(digits), 2, "0")
         IN  IF letter > 4 THEN <<>>
             ELSE IF subcode = 0 THEN base
             ELSE base \o fromCharCode(96 + subcode)

(***************************************************************************)
(* Buffers of the index and name files: sequences of bytes, buf[i] of the  *)
(* code being At(buf, i).  A number that can pass 2^31 - 1 (a uint32 word, *)
(* the game offset) is written in base 65536, most significant part first. *)
(***************************************************************************)
At(b, i) == IF i >= 0 /\ i < Len(b) THEN b[i + 1] ELSE Undef

\* buf[i] as an operand of << or |, where undefined counts as 0
AtBits(b, i) == IF i >= 0 /\ i < Len(b) THEN b[i + 1] ELSE 0

Min(a, b) == IF a < b THEN a ELSE b

\* a copy of the whole previous name, whatever the prefix length
substringWhole(s, n) == s

\* s.substring(0, n)
substring0(s, n) == SubSeq(s, 1, Min(Len(s), IF n < 0 THEN 0 ELSE n))

\* buf.toString(encoding, from, to) for bytes that are letter, digit or space codes
ByteChar(c) ==
    IF c >= 48 /\ c <= 57 THEN DIGIT_CHARS[c - 47]
    ELSE IF c = 32 THEN " "
    ELSE fromCharCode(c)[1]

BufToString(b, from, to) ==
    LET n == Min(to, Len(b)) - from
    IN  SubSeq([k \in 1..n |-> ByteChar(At(b, from + k - 1))], 1, n)

IndexEntry(whiteId, blackId, eventId, siteId, roundId, whiteElo, blackElo, date, result, eco, gameOffset, gameLength) ==
    [ whiteId |-> whiteId, blackId |-> blackId, eventId |-> eventId,
      siteId |-> siteId, roundId |-> roundId, whiteElo |-> whiteElo,
      blackElo |-> blackElo, date |-> date, result |-> result, eco |-> eco,
      gameOffset |-> gameOffset, gameLength |-> gameLength ]

(***************************************************************************)
(* codec4 (.si4 / .sn4); a | of parts with disjoint bits is their sum      *)
(***************************************************************************)
HEADER_SIZE == 182
RECORD_SIZE4 == 47

\* b22 & 0x0F, the result; and the other half of the byte
Result4HighNibble(b22) == Shr(b22, 4)
Result4(b22) == LowBits(b22, 4)

\* the body of the loop of readIndex: the record at base
Record4(b, base) ==
    LET gameOffset == <<0, Shl(At(b, base), 8) + At(b, base + 1),
                           Shl(At(b, base + 2), 8) + At(b, base + 3)>>
        b4 == At(b, base + 4)
        b5 == At(b, base + 5)
        b6 == At(b, base + 6)
        gameLength == Shl(b4, 9) + Shl(b5, 1) + Shr(b6, 7)
        b9 == At(b, base + 9)
        whiteIdHigh == LowBits(Shr(b9, 4), 4)
        blackIdHigh == LowBits(b9, 4)
        whiteIdLow == Shl(At(b, base + 10), 8) + At(b, base + 11)
        blackIdLow == Shl(At(b, base + 12), 8) + At(b, base + 13)
        whiteId == Shl(whiteIdHigh, 16) + whiteIdLow
        blackId == Shl(blackIdHigh, 16) + blackIdLow
        b14 == At(b, base + 14)
        eventIdHigh == LowBits(Shr(b14, 5), 3)
        siteIdHigh == LowBits(Shr(b14, 2), 3)
        roundIdHigh == LowBits(b14, 2)
        eventIdLow == Shl(At(b, base + 15), 8) + At(b, base + 16)
        siteIdLow == Shl(At(b, base + 17), 8) + At(b, base + 18)
        roundIdLow == Shl(At(b, base + 19), 8) + At(b, base + 20)
        eventId == Shl(eventIdHigh, 16) + eventIdLow
        siteId == Shl(siteIdHigh, 16) + siteIdLow
        roundId == Shl(roundIdHigh, 16) + roundIdLow
        b22 == At(b, base + 22)
        result == Result4(b22)
        eco == Shl(At(b, base + 23), 8) + At(b, base + 24)
        b25 == At(b, base + 25)
        b26 == At(b, base + 26)
        b27 == At(b, base + 27)
        date == Shl(b25, 12) + Shl(b26, 4) + Shr(b27, 4)
        whiteElo == Shl(At(b, base + 29), 4) + Shr(At(b, base + 30), 4)
        blackElo == Shl(At(b, base + 31), 4) + Shr(At(b, base + 32), 4)
    IN  IndexEntry(whiteId, blackId, eventId, siteId, roundId, whiteElo, blackElo,
                   date, result, eco, gameOffset, gameLength)

RECURSIVE Records4(_, _, _)
Records4(b, i, count) ==
    IF i >= count THEN <<>>
    ELSE <<Record4(b, HEADER_SIZE + i * RECORD_SIZE4)>> \o Records4(b, i + 1, count)

codec4_readIndex(b) ==
    IF Len(b) < HEADER_SIZE THEN <<>>
    ELSE LET numGames == Shl(At(b, 13), 16) + Shl(At(b, 14), 8) + At(b, 15)
             available == (Len(b) - HEADER_SIZE) \div RECORD_SIZE4
             count == Min(numGames, available)
         IN  Records4(b, 0, count)

\* the inner loop of readNamebase from entry i on; st is pos, prevName, nameArr
RECURSIVE NameEntries4(_, _, _, _, _, _)
NameEntries4(b, count, idSize, freqSize, i, st0) ==
  Bind(st0, LAMBDA st :
    IF i >= count \/ st.pos + idSize + freqSize + 2 > Len(b) THEN st
    ELSE LET id == IF idSize = 3
                   THEN Shl(At(b, st.pos), 16) + Shl(At(b, st.pos + 1), 8) + At(b, st.pos + 2)
                   ELSE Shl(At(b, st.pos), 8) + At(b, st.pos + 1)
             p1 == st.pos + idSize + freqSize
             nameLen == At(b, p1)
             prefix == At(b, p1 + 1)
             p2 == p1 + 2
             suffixLen == nameLen - prefix
         IN  IF p2 + suffixLen > Len(b) THEN st
             ELSE LET suffix == BufToString(b, p2, p2 + suffixLen)
                      name == substring0(st.prevName, prefix) \o suffix
                  IN  NameEntries4(b, count, idSize, freqSize, i + 1,
                         [ pos |-> p2 + suffixLen, prevName |-> name,
                           nameArr |-> IF id < count
                                       THEN [st.nameArr EXCEPT ![id + 1] = name]
                                       ELSE st.nameArr ]))

\* the loop over the four types from `type` on; r is pos and names
RECURSIVE NameTypes4(_, _, _)
NameTypes4(b, type, r0) ==
  Bind(r0, LAMBDA r :
    IF type >= 4 THEN r.names
    ELSE LET count == Shl(AtBits(b, 12 + 3 * type), 16) + Shl(AtBits(b, 13 + 3 * type), 8)
                      + AtBits(b, 14 + 3 * type)
             off == 24 + type * 3
             maxFreq == Shl(AtBits(b, off), 16) + Shl(AtBits(b, off + 1), 8) + AtBits(b, off + 2)
             idSize == IF count > 65535 THEN 3 ELSE 2
             freqSize == IF maxFreq > 65535 THEN 3 ELSE IF maxFreq > 255 THEN 2 ELSE 1
             st == NameEntries4(b, count, idSize, freqSize, 0,
                                [pos |-> r.pos, prevName |-> <<>>, nameArr |-> Repeat(<<>>, count)])
         IN  NameTypes4(b, type + 1,
                        [pos |-> st.pos, names |-> [r.names EXCEPT ![type + 1] = st.nameArr]]))

codec4_readNamebase(b) ==
    IF Len(b) < 12 THEN <<<<>>, <<>>, <<>>, <<>>, <<>>>>
    ELSE NameTypes4(b, 0, [pos |-> 36, names |-> <<<<>>, <<>>, <<>>, <<>>, <<>>>>])

(***************************************************************************)
(* codec5 (.si5 / .sn5); a uint32 word is <<high 16 bits, low 16 bits>>    *)
(***************************************************************************)
RECORD_SIZE5 == 56

readU32LE(b, off) ==
    <<Shl(At(b, off + 3), 8) + At(b, off + 2), Shl(At(b, off + 1), 8) + At(b, off)>>

\* w & (2^k - 1) for 1 <= k <= 31
WordLow(w, k) == IF k <= 16 THEN LowBits(w[2], k) ELSE Shl(LowBits(w[1], k - 16), 16) + w[2]

\* w >>> k for 1 <= k <= 31
WordShr(w, k) == IF k >= 16 THEN Shr(w[1], k - 16) ELSE Shl(w[1], 16 - k) + Shr(w[2], k)

\* w itself, for a word below 2^31
WordValue(w) == Shl(w[1], 16) + w[2]

Record5(b, base) ==
    LET w0 == readU32LE(b, base)
        w1 == readU32LE(b, base + 4)
        w2 == readU32LE(b, base + 8)
        w3 == readU32LE(b, base + 12)
        w4 == readU32LE(b, base + 16)
        w5 == readU32LE(b, base + 20)
        w6 == readU32LE(b, base + 24)
        w8 == readU32LE(b, base + 32)
        w9 == readU32LE(b, base + 36)
        w11 == readU32LE(b, base + 44)
        whiteId == WordLow(w0, 28)
        blackId == WordLow(w1, 28)
        eventId == WordLow(w2, 28)
        siteId == WordValue(w3)
        roundId == WordLow(w4, 31)
        whiteElo == LowBits(WordShr(w5, 20), 12)
        date == WordLow(w5, 20)
        blackElo == LowBits(WordShr(w6, 20), 12)
        result == LowBits(WordShr(w11, 16), 2)
        eco == WordLow(w11, 16)
        offsetHigh == WordLow(w8, 15)
        offsetLow == w9
        gameOffset == <<offsetHigh, offsetLow[1], offsetLow[2]>>
        gameLength == LowBits(WordShr(w8, 15), 17)
    IN  IndexEntry(whiteId, blackId, eventId, siteId, roundId, whiteElo, blackElo,
                   date, result, eco, gameOffset, gameLength)

RECURSIVE Records5(_, _, _)
Records5(b, i, count) ==
    IF i >= count THEN <<>>
    ELSE <<Record5(b, i * RECORD_SIZE5)>> \o Records5(b, i + 1, count)

codec5_readIndex(b) == Records5(b, 0, Len(b) \div RECORD_SIZE5)

\* bit k of a | b, in its place
OrBit(a, b, k) == IF Shr(a, k) % 2 = 1 \/ Shr(b, k) % 2 = 1 THEN 2 ^ k ELSE 0

\* a | b for 0 <= a, b < 2^16
BitOr(a, b) ==
    OrBit(a, b, 0) + OrBit(a, b, 1) + OrBit(a, b, 2) + OrBit(a, b, 3)
    + OrBit(a, b, 4) + OrBit(a, b, 5) + OrBit(a, b, 6) + OrBit(a, b, 7)
    + OrBit(a, b, 8) + OrBit(a, b, 9) + OrBit(a, b, 10) + OrBit(a, b, 11)
    + OrBit(a, b, 12) + OrBit(a, b, 13) + OrBit(a, b, 14) + OrBit(a, b, 15)

\* v << shift as a 32-bit word, for 0 <= v < 128: the shift count is taken
\* modulo 32 and the bits from 2^32 on are dropped
ShiftedWord(v, shift) ==
    LET sh == shift % 32
    IN  IF sh < 16 THEN <<Shr(Shl(v, sh), 16), LowBits(Shl(v, sh), 16)>>
        ELSE <<LowBits(Shl(v, sh - 16), 16), 0>>

\* the do-while loop of readNamebase: the varint that starts at pos
RECURSIVE Varint5(_, _, _, _)
Varint5(b, p, varint0, shift) ==
  Bind(varint0, LAMBDA varint :
    IF p >= Len(b) THEN [eof |-> TRUE, pos |-> p, varint |-> varint]
    ELSE LET byte == At(b, p)
             part == ShiftedWord(LowBits(byte, 7), shift)
             v == <<BitOr(varint[1], part[1]), BitOr(varint[2], part[2])>>
         IN  IF byte >= 128 THEN Varint5(b, p + 1, v, shift + 7)
             ELSE [eof |-> FALSE, pos |-> p + 1, varint |-> v])

\* the while loop of readNamebase from pos on
RECURSIVE NameEntries5(_, _, _)
NameEntries5(b, p0, names0) ==
  Bind(<<p0, names0>>, LAMBDA s :
    LET p == s[1]
        names == s[2]
    IN  IF p >= Len(b) THEN names
        ELSE Bind(Varint5(b, p, <<0, 0>>, 0), LAMBDA r :
               LET nameType == WordLow(r.varint, 3)
                   strLen == WordShr(r.varint, 3)
               IN  IF r.eof THEN names
                   ELSE IF r.pos + strLen > Len(b) THEN names
                   ELSE NameEntries5(b, r.pos + strLen,
                           IF nameType < Len(names)
                           THEN [names EXCEPT ![nameType + 1] =
                                     Append(@, BufToString(b, r.pos, r.pos + strLen))]
                           ELSE names)))

codec5_readNamebase(b) == NameEntries5(b, 0, <<<<>>, <<>>, <<>>, <<>>, <<>>>>)

(***************************************************************************)
(* ScidDatabase (index.ts); a database is the record of its four fields    *)
(***************************************************************************)
NAME_PLAYER == 0
NAME_EVENT == 1
NAME_SITE == 2
NAME_ROUND == 3

\* what readFileSync and openSync are given when the file cannot be read
ReadError == <<-1>>

\* s.lastIndexOf(c)
lastIndexOf(s, c) ==
    IF \E i \in 1..Len(s) : s[i] = c
    THEN (CHOOSE i \in 1..Len(s) : s[i] = c /\ \A j \in (i + 1)..Len(s) : s[j] # c) - 1
    ELSE -1

\* s.substring(i)
substringFrom(s, i) == SubSeq(s, (IF i < 0 THEN 0 ELSE i) + 1, Len(s))

readIndex(codec, b) == IF codec = "codec5" THEN codec5_readIndex(b) ELSE codec4_readIndex(b)

readNamebase(codec, b) ==
    IF codec = "codec5" THEN codec5_readNamebase(b) ELSE codec4_readNamebase(b)

gameFileExt(codec) ==
    IF codec = "codec5" THEN <<".", "s", "g", "5">> ELSE <<".", "s", "g", "4">>

DbReturned(d, v) == [thrown |-> FALSE, error |-> "", db |-> d, value |-> v]
DbThrown(d, e) == [thrown |-> TRUE, error |-> e, db |-> d, value |-> <<>>]

\* open(path) where reading the index file gives indexBuf and reading the
\* name file gives nbBuf (ReadError: readFileSync throws)
open(d, path, indexBuf, nbBuf) ==
    LET ext == toLowerCase(substringFrom(path, lastIndexOf(path, ".")))
        basePath == substring0(path, Len(path) - 4)
        codec == IF ext = <<".", "s", "i", "5">> THEN "codec5" ELSE "codec4"
        d1 == [d EXCEPT !.codec = codec]
        d2 == [d1 EXCEPT !.entries = readIndex(codec, indexBuf)]
        d3 == [d2 EXCEPT !.names = readNamebase(codec, nbBuf)]
    IN  IF ext # <<".", "s", "i", "5">> /\ ext # <<".", "s", "i", "4">>
        THEN DbThrown(d, "Unsupported SCID file extension")
        ELSE IF indexBuf = ReadError THEN DbThrown(d1, "readFileSync")
        ELSE IF nbBuf = ReadError THEN DbThrown(d2, "readFileSync")
        ELSE DbReturned([d3 EXCEPT !.gameFilePath = basePath \o gameFileExt(codec)], <<>>)

\* close() that keeps the index entries
closeKeepsEntries(d) == [ClosedDb EXCEPT !.entries = d.entries]
close(d) == ClosedDb

getGameCount(d) == Len(d.entries)

\* resolveName that looks every ID up among the players
resolveNamePlayersOnly(d, type, id) ==
    IF NAME_PLAYER >= Len(d.names) THEN <<"?">>
    ELSE IF id >= Len(d.names[NAME_PLAYER + 1]) THEN <<"?">>
    ELSE IF d.names[NAME_PLAYER + 1][id + 1] = <<>> THEN <<"?">>
    ELSE d.names[NAME_PLAYER + 1][id + 1]
resolveName(d, type, id) ==
    IF type >= Len(d.names) THEN <<"?">>
    ELSE IF id >= Len(d.names[type + 1]) THEN <<"?">>
    ELSE IF d.names[type + 1][id + 1] = <<>> THEN <<"?">>
    ELSE d.names[type + 1][id + 1]

\* this.entries[n] is an entry
HasEntry(d, n) == n >= 0 /\ n < Len(d.entries)

getHeaders(d, n) ==
    IF ~HasEntry(d, n)
    THEN [ white |-> <<"?">>, black |-> <<"?">>, event |-> <<"?">>, site |-> <<"?">>,
           round |-> <<"?">>, date |-> <<"?", "?", "?", "?", ".", "?", "?", ".", "?", "?">>,
           result |-> <<"*">>, whiteElo |-> 0, blackElo |-> 0, eco |-> <<>> ]
    ELSE LET e == d.entries[n + 1]
         IN  [ white |-> resolveName(d, NAME_PLAYER, e.whiteId),
               black |-> resolveName(d, NAME_PLAYER, e.blackId),
               event |-> resolveName(d, NAME_EVENT, e.eventId),
               site |-> resolveName(d, NAME_SITE, e.siteId),
               round |-> resolveName(d, NAME_ROUND, e.roundId),
               date |-> decodeDate(e.date),
               result |-> resultToString(e.result),
               whiteElo |-> e.whiteElo,
               blackElo |-> e.blackElo,
               eco |-> decodeEco(e.eco) ]

\* getMoves(n) where the game file holds `data` at the entry's offset
\* (ReadError: openSync throws)
getMoves(d, n, data) ==
    IF ~HasEntry(d, n) THEN DbReturned(d, <<>>)
    ELSE IF d.entries[n + 1].gameLength = 0 THEN DbReturned(d, <<>>)
    ELSE IF data = ReadError THEN DbThrown(d, "openSync")
    ELSE LET parsed == parseGameData(data, 0, d.entries[n + 1].gameLength)
         IN  IF parsed.pc = "thrown" THEN DbThrown(d, "parseGameData")
             ELSE DbReturned(d, parsed.moves)

\* the test of the loop of search for game i
Matches(d, i, lowerQuery) ==
    LET e == d.entries[i + 1]
        white == resolveName(d, NAME_PLAYER, e.whiteId)
        black == resolveName(d, NAME_PLAYER, e.blackId)
        event == resolveName(d, NAME_EVENT, e.eventId)
        site == resolveName(d, NAME_SITE, e.siteId)
        eco == decodeEco(e.eco)
    IN  \/ includes(toLowerCase(white), lowerQuery)
        \/ includes(toLowerCase(black), lowerQuery)
        \/ includes(toLowerCase(event), lowerQuery)
        \/ includes(toLowerCase(site), lowerQuery)
        \/ includes(toLowerCase(eco), lowerQuery)

RECURSIVE MatchLoop(_, _, _)
MatchLoop(d, i, lowerQuery) ==
    IF i >= Len(d.entries) THEN <<>>
    ELSE (IF Matches(d, i, lowerQuery) THEN <<i>> ELSE <<>>) \o MatchLoop(d, i + 1, lowerQuery)

\* a.slice(from, to) for integers 0 <= from <= to; and a slice that starts
\* at the first element whatever from is
sliceFromStart(a, from, to) == SubSeq(a, 1, Min(to - from, Len(a)))
slice(a, from, to) == SubSeq(a, from + 1, Min(to, Len(a)))

search(d, query, off, limit) ==
    LET lowerQuery == toLowerCase(query)
        matches == MatchLoop(d, 0, lowerQuery)
    IN  [results |-> slice(matches, off, off + limit), total |-> Len(matches)]

(***************************************************************************)
(* Files: the two index layouts and name files as scid/SPEC.md lays them   *)
(* out.  `noise` (a byte) fills the bits next to the decoded fields.       *)
(***************************************************************************)
\* "Scid.si\x1a"
MAGIC_SI4 == <<83, 99, 105, 100, 46, 115, 105, 26>>

\* x as two bytes, most significant first
BE16(x) == <<Shr(x, 8), LowBits(x, 8)>>

\* the word with high half hi and low half lo as four bytes, least significant first
LE32(hi, lo) == <<LowBits(lo, 8), Shr(lo, 8), LowBits(hi, 8), Shr(hi, 8)>>

\* the 182-byte header of an .si4 file
Header4(magic, numGames) ==
    magic \o <<0, 4>> \o <<0, 0, 0>> \o <<Shr(numGames, 16)>> \o BE16(LowBits(numGames, 16))
          \o <<0, 0, 0, 0>> \o Repeat(0, 162)

\* the 47-byte record of an .si4 file for entry e
Encode4(e, noise) ==
    BE16(e.gameOffset[2]) \o BE16(e.gameOffset[3])
    \o <<Shr(e.gameLength, 9), LowBits(Shr(e.gameLength, 1), 8),
         Shl(LowBits(e.gameLength, 1), 7) + LowBits(noise, 7)>>
    \o <<noise, noise>>
    \o <<Shl(Shr(e.whiteId, 16), 4) + Shr(e.blackId, 16)>>
    \o BE16(LowBits(e.whiteId, 16)) \o BE16(LowBits(e.blackId, 16))
    \o <<Shl(Shr(e.eventId, 16), 5) + Shl(Shr(e.siteId, 16), 2) + Shr(e.roundId, 16)>>
    \o BE16(LowBits(e.eventId, 16)) \o BE16(LowBits(e.siteId, 16))
    \o BE16(LowBits(e.roundId, 16))
    \o <<noise>>
    \o <<Shl(Shr(noise, 4), 4) + e.result>>
    \o BE16(e.eco)
    \o <<Shr(e.date, 12), LowBits(Shr(e.date, 4), 8), Shl(LowBits(e.date, 4), 4) + LowBits(noise, 4)>>
    \o <<noise>>
    \o <<Shr(e.whiteElo, 4), Shl(LowBits(e.whiteElo, 4), 4) + LowBits(noise, 4)>>
    \o <<Shr(e.blackElo, 4), Shl(LowBits(e.blackElo, 4), 4) + LowBits(noise, 4)>>
    \o Repeat(noise, 14)

\* the 56-byte record of an .si5 file for entry e
Encode5(e, noise) ==
    LET n4 == LowBits(noise, 4)
        n16 == Shl(noise, 8) + noise
    IN  LE32(Shl(n4, 12) + Shr(e.whiteId, 16), LowBits(e.whiteId, 16))
        \o LE32(Shl(n4, 12) + Shr(e.blackId, 16), LowBits(e.blackId, 16))
        \o LE32(Shl(n4, 12) + Shr(e.eventId, 16), LowBits(e.eventId, 16))
        \o LE32(Shr(e.siteId, 16), LowBits(e.siteId, 16))
        \o LE32(Shl(LowBits(noise, 1), 15) + Shr(e.roundId, 16), LowBits(e.roundId, 16))
        \o LE32(Shl(e.whiteElo, 4) + Shr(e.date, 16), LowBits(e.date, 16))
        \o LE32(Shl(e.blackElo, 4) + n4, n16)
        \o LE32(n16, n16)
        \o LE32(Shr(e.gameLength, 1), Shl(LowBits(e.gameLength, 1), 15) + e.gameOffset[1])
        \o LE32(e.gameOffset[2], e.gameOffset[3])
        \o LE32(n16, n16)
        \o LE32(Shl(noise, 8) + Shl(Shr(noise, 2), 2) + e.result, e.eco)
        \o LE32(n16, n16) \o LE32(n16, n16)

\* Three games.  Game 0: Al - Alb, Cup, Ely, round 1, 2024.01.15, 1-0, B12,
\* three bytes of game data.  Game 1: a player whose stored name is empty
\* against player 7 (not in the dictionary), site 5 (not in the dictionary),
\* no date, draw, no ECO, no game data.  Game 2: Alb - Al, A00a.
Game0 == IndexEntry(0, 1, 0, 0, 0, 2700, 2650, 1036335, 1, 448, <<0, 0, 0>>, 3)
Game1 == IndexEntry(2, 7, 0, 5, 0, 0, 0, 0, 3, 0, <<0, 0, 3>>, 0)
Game2 == IndexEntry(1, 0, 0, 0, 0, 0, 2400, 1036288, 2, 1, <<0, 0, 3>>, 3)

\* .si4 files: empty; ten bytes; a header one byte short; three games; a
\* header that declares three games followed by two records; three games
\* after a header without the magic
IndexFiles4 ==
    { <<>>,
      MAGIC_SI4 \o <<0, 4>>,
      SubSeq(Header4(MAGIC_SI4, 0), 1, HEADER_SIZE - 1),
      Header4(MAGIC_SI4, 3) \o Encode4(Game0, 0) \o Encode4(Game1, 255) \o Encode4(Game2, 0),
      Header4(MAGIC_SI4, 3) \o Encode4(Game0, 255) \o Encode4(Game1, 0),
      Header4(Repeat(0, 8), 3) \o Encode4(Game0, 0) \o Encode4(Game1, 255) \o Encode4(Game2, 0) }

\* .si5 files: three games; one game and half a record
IndexFiles5 ==
    { Encode5(Game0, 0) \o Encode5(Game1, 255) \o Encode5(Game2, 0),
      Encode5(Game2, 255) \o SubSeq(Encode5(Game0, 0), 1, 28) }

\* The dictionary of both name files: players "Al", "Alb", ""; event "Cup";
\* site "Ely"; round "1".
\* .sn4: magic and version, timestamp, the four counts, the four maximal
\* frequencies, then per entry ID, frequency, length, prefix, suffix
NameFile4 ==
    <<83, 99, 105, 100, 46, 115, 110, 4>> \o <<0, 0, 0, 0>>
    \o <<0, 0, 3>> \o <<0, 0, 1>> \o <<0, 0, 1>> \o <<0, 0, 1>>
    \o <<0, 0, 2>> \o <<0, 0, 3>> \o <<0, 0, 3>> \o <<0, 0, 3>>
    \o <<0, 2, 1, 0, 0>>
    \o <<0, 0, 2, 2, 0, 65, 108>>
    \o <<0, 1, 2, 3, 2, 98>>
    \o <<0, 0, 3, 3, 0, 67, 117, 112>>
    \o <<0, 0, 3, 3, 0, 69, 108, 121>>
    \o <<0, 0, 3, 1, 0, 49>>

\* .sn5: per entry the varint (length << 3) | type, then the bytes
NameFile5 ==
    <<16, 65, 108>> \o <<25, 67, 117, 112>> \o <<24, 65, 108, 98>> \o <<0>>
    \o <<26, 69, 108, 121>> \o <<11, 49>>


(***************************************************************************)
(* One ScidDatabase driven through its public methods.  `trace` holds the  *)
(* last call: its arguments, what the files gave, the database before it,  *)
(* its outcome, and `calls`, the open and close calls made so far.         *)
(***************************************************************************)
\* Most calls in one behaviour of the database specification
MaxDbCalls == 3

\* "d.si4", "d.SI5", "d.pgn", "db"
Paths ==
    { <<"d", ".", "s", "i", "4">>, <<"d", ".", "S", "I", "5">>,
      <<"d", ".", "p", "g", "n">>, <<"d", "b">> }

\* what the index file and the name file at a path can hold
IndexFilesAt(path) ==
    IF path[Len(path)] = "4" THEN IndexFiles4 \cup {ReadError}
    ELSE IndexFiles5 \cup {<<>>, ReadError}

NameFilesAt(path) ==
    IF path[Len(path)] = "4" THEN {NameFile4, <<>>, ReadError}
    ELSE {NameFile5, <<>>, ReadError}

\* game numbers asked for
GameNumbers == -1..3

\* what the game file holds for a three-byte game: no tags, standard start, e2-e4
GameData == {HDR_STD \o <<207>>, ReadError}

\* "", "AL", "?", "b1", "zz"
Queries == {<<>>, <<"A", "L">>, <<"?">>, <<"b", "1">>, <<"z", "z">>}

Offsets == 0..3
Limits == 0..2

NoArgs == [path |-> <<>>, indexBuf |-> <<>>, nbBuf |-> <<>>, n |-> 0, data |-> <<>>,
           query |-> <<>>, off |-> 0, limit |-> 0]

CallsSoFar == IF trace = <<>> THEN <<>> ELSE trace[1].calls

DbCall(name, args, r, calls) ==
    <<[call |-> name, args |-> args, pre |-> db, thrown |-> r.thrown, error |-> r.error,
       value |-> r.value, calls |-> calls]>>

DbInit ==
    /\ buf = <<>> /\ offset = 0 /\ length = 0 /\ pos = 0 /\ pc = "db"
    /\ extraTags = <<>> /\ startFen = NullFen
    /\ board = NewBoard /\ preMoveBoard = NewBoard /\ boardStack = <<>>
    /\ depth = 0 /\ moves = <<>> /\ trace = <<>> /\ reads = {}
    /\ heap = NoHeap /\ db = ClosedDb

DbFrame ==
    UNCHANGED <<buf, offset, length, pc, extraTags, startFen, board, preMoveBoard,
                boardStack, depth, moves, reads, heap>>

DbStep == pc = "db" /\ pos < MaxDbCalls /\ pos' = pos + 1 /\ DbFrame

CallOpen ==
    /\ DbStep
    /\ \E path \in Paths :
         \E indexBuf \in IndexFilesAt(path), nbBuf \in NameFilesAt(path) :
            LET r == open(db, path, indexBuf, nbBuf)
            IN  /\ db' = r.db
                /\ trace' = DbCall("open",
                                   [NoArgs EXCEPT !.path = path, !.indexBuf = indexBuf,
                                                  !.nbBuf = nbBuf],
                                   r,
                                   Append(CallsSoFar, IF r.thrown THEN "openFailed" ELSE "open"))

CallClose ==
    /\ DbStep
    /\ db' = close(db)
    /\ trace' = DbCall("close", NoArgs, DbReturned(db, <<>>), Append(CallsSoFar, "close"))

CallGetGameCount ==
    /\ DbStep
    /\ db' = db
    /\ trace' = DbCall("getGameCount", NoArgs, DbReturned(db, getGameCount(db)), CallsSoFar)

CallGetHeaders ==
    /\ DbStep
    /\ db' = db
    /\ \E n \in GameNumbers :
         trace' = DbCall("getHeaders", [NoArgs EXCEPT !.n = n],
                         DbReturned(db, getHeaders(db, n)), CallsSoFar)

CallGetMoves ==
    /\ DbStep
    /\ db' = db
    /\ \E n \in GameNumbers, data \in GameData :
         trace' = DbCall("getMoves", [NoArgs EXCEPT !.n = n, !.data = data],
                         getMoves(db, n, data), CallsSoFar)

CallSearch ==
    /\ DbStep
    /\ db' = db
    /\ \E query \in Queries, off \in Offsets, limit \in Limits :
         trace' = DbCall("search",
                         [NoArgs EXCEPT !.query = query, !.off = off, !.limit = limit],
                         DbReturned(db, search(db, query, off, limit)), CallsSoFar)

DbNext ==
    CallOpen \/ CallClose \/ CallGetGameCount \/ CallGetHeaders \/ CallGetMoves \/ CallSearch

DbSpec == DbInit /\ [][DbNext]_vars

(***************************************************************************)
(* C14 .. C18 (checked under DbSpec)                                       *)
(***************************************************************************)
\* the last call was `name`
Called(name) == trace # <<>> /\ trace[1].call = name

\* the path names an index file of format A
FormatA(path) ==
    toLowerCase(substringFrom(path, lastIndexOf(path, "."))) = <<".", "s", "i", "4">>

\* C14: open of a format-A database whose index buffer is shorter than the
\* 182-byte header, or does not start with the eight magic bytes, fails, and
\* not with the error of a file that cannot be read.
C14_BadIndexFails ==
    (/\ Called("open")
     /\ FormatA(trace[1].args.path)
     /\ trace[1].args.indexBuf # ReadError
     /\ \/ Len(trace[1].args.indexBuf) < 182
        \/ SubSeq(trace[1].args.indexBuf, 1, 8) # MAGIC_SI4)
    => (trace[1].thrown /\ trace[1].error # "readFileSync")

\* C15: an open that raises leaves codec, entries, names and game-file path
\* as they were before the call.
C15_FailedOpenNotPartial ==
    (Called("open") /\ trace[1].thrown) => db = trace[1].pre

\* the string stored for (type, id) in d's dictionary, NoName if there is none
NoName == <<"none">>
Stored(d, type, id) ==
    IF type < Len(d.names) /\ id < Len(d.names[type + 1])
    THEN d.names[type + 1][id + 1]
    ELSE NoName

NameTypes == 0..4
NameIds == 0..8

\* the five names of a header, with the type and ID each was resolved from
NamesOf(d, n, h) ==
    LET e == d.entries[n + 1]
    IN  { <<NAME_PLAYER, e.whiteId, h.white>>, <<NAME_PLAYER, e.blackId, h.black>>,
          <<NAME_EVENT, e.eventId, h.event>>, <<NAME_SITE, e.siteId, h.site>>,
          <<NAME_ROUND, e.roundId, h.round>> }

\* C16 as stated: an ID with no stored string resolves to "?", every
\* in-range ID resolves to the string stored for it, and getHeaders does not
\* raise.
C16_ResolveStored ==
    /\ \A type \in NameTypes, id \in NameIds :
         resolveName(db, type, id) =
            IF Stored(db, type, id) = NoName THEN <<"?">> ELSE Stored(db, type, id)
    /\ Called("getHeaders") =>
         /\ ~trace[1].thrown
         /\ HasEntry(db, trace[1].args.n) =>
              \A x \in NamesOf(db, trace[1].args.n, trace[1].value) :
                 x[3] = IF Stored(db, x[1], x[2]) = NoName THEN <<"?">>
                        ELSE Stored(db, x[1], x[2])

\* C16, amended: an ID with no stored string, or whose stored string is
\* empty, resolves to "?"; every in-range ID whose stored string is not
\* empty resolves to that string; getHeaders does not raise.
C16_ResolveStoredNonEmpty ==
    /\ \A type \in NameTypes, id \in NameIds :
         resolveName(db, type, id) =
            IF Stored(db, type, id) \in {NoName, <<>>} THEN <<"?">> ELSE Stored(db, type, id)
    /\ Called("getHeaders") =>
         /\ ~trace[1].thrown
         /\ HasEntry(db, trace[1].args.n) =>
              \A x \in NamesOf(db, trace[1].args.n, trace[1].value) :
                 x[3] = IF Stored(db, x[1], x[2]) \in {NoName, <<>>} THEN <<"?">>
                        ELSE Stored(db, x[1], x[2])

\* getHeaders of a game with an ID beyond its dictionary, an ID whose stored
\* name is empty and IDs with stored names
C16_Witness ==
    /\ Called("getHeaders")
    /\ HasEntry(db, trace[1].args.n)
    /\ \E x \in NamesOf(db, trace[1].args.n, trace[1].value) : Stored(db, x[1], x[2]) = NoName
    /\ \E x \in NamesOf(db, trace[1].args.n, trace[1].value) : Stored(db, x[1], x[2]) = <<>>
    /\ \E x \in NamesOf(db, trace[1].args.n, trace[1].value) :
          Stored(db, x[1], x[2]) \notin {NoName, <<>>} /\ x[1] # NAME_PLAYER

\* the header made only of unknown markers
AllUnknown ==
    [ white |-> <<"?">>, black |-> <<"?">>, event |-> <<"?">>, site |-> <<"?">>,
      round |-> <<"?">>, date |-> <<"?", "?", "?", "?", ".", "?", "?", ".", "?", "?">>,
      result |-> <<"*">>, whiteElo |-> 0, blackElo |-> 0, eco |-> <<>> ]

\* close() was the last of the open and close calls
AfterClose ==
    /\ trace # <<>>
    /\ trace[1].calls # <<>>
    /\ trace[1].calls[Len(trace[1].calls)] = "close"

\* C17: getHeaders(n) for n outside 0..getGameCount()-1 returns the
\* all-unknown header and does not fail; after close(), whatever open and
\* close calls came before it, getGameCount() is 0, getHeaders(n) is the
\* all-unknown header, getMoves(n) is empty and search finds nothing.
C17_OutOfRangeAndClosed ==
    /\ (Called("getHeaders") /\ trace[1].args.n \notin 0..(getGameCount(db) - 1))
         => (~trace[1].thrown /\ trace[1].value = AllUnknown)
    /\ AfterClose =>
         /\ getGameCount(db) = 0
         /\ Called("getGameCount") => trace[1].value = 0
         /\ Called("getHeaders") => (~trace[1].thrown /\ trace[1].value = AllUnknown)
         /\ Called("getMoves") => (~trace[1].thrown /\ trace[1].value = <<>>)
         /\ Called("search") => (trace[1].value.results = <<>> /\ trace[1].value.total = 0)

\* getHeaders(0) on a database that was opened with games and then closed
C17_Witness ==
    /\ AfterClose
    /\ \E i \in 1..Len(trace[1].calls) :
          trace[1].calls[i] = "open" /\ trace[1].calls[i + 1] = "close"
    /\ Called("getHeaders")
    /\ trace[1].args.n = 0

\* s contains q, ignoring case
ContainsIgnoringCase(s, q) ==
    \E i \in 0..(Len(s) - Len(q)) : \A j \in 1..Len(q) : LowerChar(s[i + j]) = LowerChar(q[j])

\* the elements of a set of numbers in ascending order
RECURSIVE Ascending(_)
Ascending(S) ==
    IF S = {} THEN <<>>
    ELSE LET m == CHOOSE x \in S : \A y \in S : x <= y
         IN  <<m>> \o Ascending(S \ {m})

\* M: the games whose resolved white, black, event, site or ECO contains q
MatchList(d, q) ==
    Ascending({ i \in 0..(getGameCount(d) - 1) :
                  LET h == getHeaders(d, i)
                  IN  \E f \in {h.white, h.black, h.event, h.site, h.eco} :
                         ContainsIgnoringCase(f, q) })

\* the elements of M at positions from .. to - 1 (counted from 0)
Part(M, from, to) == [k \in 1..((IF to < Len(M) THEN to ELSE Len(M)) - from) |-> M[from + k]]

PageSizes == 1..2

\* the pages of size k of a search for q, from offset `off` on
RECURSIVE Pages(_, _, _, _)
Pages(d, q, k, off) ==
    IF off >= getGameCount(d) THEN <<>>
    ELSE <<search(d, q, off, k)>> \o Pages(d, q, k, off + k)

RECURSIVE JoinResults(_)
JoinResults(ps) == IF ps = <<>> THEN <<>> ELSE Head(ps).results \o JoinResults(Tail(ps))

\* C18: search returns the slice [offset, offset + limit) of M and
\* total = |M|; successive pages of one size are disjoint, join to M and
\* report the same total.
C18_SearchPages ==
    /\ Called("search") =>
         /\ trace[1].value.total = Len(MatchList(db, trace[1].args.query))
         /\ trace[1].value.results =
               Part(MatchList(db, trace[1].args.query), trace[1].args.off,
                    trace[1].args.off + trace[1].args.limit)
    /\ \A q \in Queries, k \in PageSizes :
         LET ps == Pages(db, q, k, 0)
         IN  /\ JoinResults(ps) = MatchList(db, q)
             /\ \A i \in 1..Len(ps) :
                  /\ ps[i].total = Len(MatchList(db, q))
                  /\ \A j \in 1..Len(ps) :
                       i # j => \A x \in 1..Len(ps[i].results) : \A y \in 1..Len(ps[j].results) :
                                   ps[i].results[x] # ps[j].results[y]

\* a page that is neither the first games nor all of the matches, for a
\* query written in another case than the names
C18_Witness ==
    /\ Called("search")
    /\ trace[1].args.off > 0
    /\ trace[1].value.results # <<>>
    /\ Len(trace[1].value.results) < trace[1].value.total
    /\ trace[1].value.total < getGameCount(db)
    /\ trace[1].args.query # toLowerCase(trace[1].args.query)

(***************************************************************************)
(* The codecs and decodeEco applied to inputs drawn from bounded sets;     *)
(* `trace` holds the last application.                                     *)
(***************************************************************************)
\* Logical records whose values fit both layouts: each field at its least
\* value and at its greatest (20, 19 and 18 bits for the IDs of format A,
\* 12 for a rating, 20 for the date, 32 for the offset, 17 for the length)
LogicalRecords ==
    { IndexEntry(w, bl, ev, si, ro, we, 4095, da, re, ec, go, gl) :
        w \in {0, 1048575}, bl \in {1, 1048575}, ev \in {0, 524287},
        si \in {2, 524287}, ro \in {0, 262143}, we \in {0, 4095},
        da \in {0, 1036335, 1048575}, re \in 0..3, ec \in {0, 448, 65535},
        go \in {<<0, 0, 0>>, <<0, 65535, 65535>>}, gl \in {0, 131071} }

\* the bits around the fields: all clear, all set
Noises == {0, 255}

EcoLetters == 0..4
EcoDigits == 0..99
EcoSubcodes == 0..3

CodecInit ==
    /\ buf = <<>> /\ offset = 0 /\ length = 0 /\ pos = 0 /\ pc = "codec"
    /\ extraTags = <<>> /\ startFen = NullFen
    /\ board = NewBoard /\ preMoveBoard = NewBoard /\ boardStack = <<>>
    /\ depth = 0 /\ moves = <<>> /\ trace = <<>> /\ reads = {}
    /\ heap = NoHeap /\ db = ClosedDb

\* one application in a behaviour
CodecFrame ==
    /\ pc' = "applied"
    /\ UNCHANGED <<buf, offset, length, pos, extraTags, startFen, board, preMoveBoard,
                   boardStack, depth, moves, reads, heap, db>>

\* one record written in both layouts, each file opened and its game 0 rendered
ReadBoth ==
    /\ pc = "codec"
    /\ \E e \in LogicalRecords, noise \in Noises :
         LET fileA == Header4(MAGIC_SI4, 1) \o Encode4(e, noise)
             fileB == Encode5(e, noise)
             dbA == open(ClosedDb, <<"d", ".", "s", "i", "4">>, fileA, NameFile4).db
             dbB == open(ClosedDb, <<"d", ".", "s", "i", "5">>, fileB, NameFile5).db
         IN  trace' = <<[ call |-> "readIndex", e |-> e, noise |-> noise,
                          a |-> codec4_readIndex(fileA), b |-> codec5_readIndex(fileB),
                          ha |-> getHeaders(dbA, 0), hb |-> getHeaders(dbB, 0) ]>>
    /\ CodecFrame

\* decodeEco applied to the code of a letter, two digits and a subcode
ApplyDecodeEco ==
    /\ pc = "codec"
    /\ \E letter \in EcoLetters, digits \in EcoDigits, subcode \in EcoSubcodes :
         trace' = <<[ call |-> "decodeEco", letter |-> letter, digits |-> digits,
                      subcode |-> subcode,
                      value |-> decodeEco(letter * 400 + digits * 4 + subcode) ]>>
    /\ CodecFrame

CodecNext == ReadBoth \/ ApplyDecodeEco

CodecSpec == CodecInit /\ [][CodecNext]_vars

(***************************************************************************)
(* C19, C20 (checked under CodecSpec)                                      *)
(***************************************************************************)
\* C19: for a logical record that fits both layouts, codec4.readIndex on its
\* format-A encoding and codec5.readIndex on its format-B encoding return
\* the same record, the one that was encoded, and getHeaders renders the
\* two identically.
C19_CodecsAgree ==
    Called("readIndex") =>
        /\ trace[1].a = trace[1].b
        /\ trace[1].a = <<trace[1].e>>
        /\ trace[1].ha = trace[1].hb

\* a record with every field at its greatest value, among set neighbour
\* bits, decoded and rendered with a result, a date and an ECO code
C19_Witness ==
    /\ Called("readIndex")
    /\ trace[1].noise = 255
    /\ trace[1].e.whiteId = 1048575 /\ trace[1].e.roundId = 262143
    /\ trace[1].e.gameLength = 131071 /\ trace[1].e.gameOffset = <<0, 65535, 65535>>
    /\ trace[1].e.result = 3 /\ trace[1].e.eco = 448
    /\ trace[1].ha.result = <<"1", "/", "2", "-", "1", "/", "2">>
    /\ trace[1].hb.eco = <<"B", "1", "2">>

\* the ECO string of a letter, two digits and a subcode
EcoText(letter, digits, subcode) ==
    <<UPPER_CHARS[letter + 1], DIGIT_CHARS[(digits \div 10) + 1], DIGIT_CHARS[(digits % 10) + 1]>>
    \o (IF subcode = 0 THEN <<>> ELSE <<LOWER_CHARS[subcode]>>)

\* C20: decodeEco((letter - 'A') * 400 + digits * 4 + subcode) is the letter,
\* the two digits and 'a', 'b' or 'c' for subcode 1, 2 or 3, for every letter
\* A..E, digits 00..99 and subcode 0..3.
C20_EcoRoundTrip ==
    Called("decodeEco") =>
        trace[1].value = EcoText(trace[1].letter, trace[1].digits, trace[1].subcode)

(***************************************************************************)
(* C21 (checked under BoardSpec)                                           *)
(***************************************************************************)
\* list order of the canonical start: K, R(a), N(b), B(c), Q(d), B(f), N(g),
\* R(h), then the pawns a..h; CanonFiles gives each entry's file
CanonTypes ==
    <<KING, ROOK, KNIGHT, BISHOP, QUEEN, BISHOP, KNIGHT, ROOK,
      PAWN, PAWN, PAWN, PAWN, PAWN, PAWN, PAWN, PAWN>>
CanonFiles == <<4, 0, 1, 2, 3, 5, 6, 7, 0, 1, 2, 3, 4, 5, 6, 7>>

\* rank of list entry i of colour c in the canonical start
CanonRank(c, i) ==
    IF c = WHITE THEN (IF i < 8 THEN 0 ELSE 1) ELSE (IF i < 8 THEN 7 ELSE 6)

\* C21: setupStartPosition on a board in any prior state yields the canonical
\* start: White to move, no en-passant square, each colour with exactly 16
\* pieces in the list order K, R(a), N(b), B(c), Q(d), B(f), N(g), R(h), pawns
\* a..h, the kings on e1 and e8, and ranks 3 to 6 empty.
C21_StartPositionCanonical ==
    (trace # <<>> /\ LastCall.type = "setupStartPosition") =>
        /\ getSideToMove(board) = WHITE
        /\ board.epSquare = -1
        /\ \A c \in {WHITE, BLACK} :
              /\ getPieceCount(board, c) = 16
              /\ Len(board.list[c]) = 16
              /\ \A i \in 0..15 :
                    /\ HasPiece(board, c, i)
                    /\ getPiece(board, c, i).type = CanonTypes[i + 1]
                    /\ getPiece(board, c, i).color = c
                    /\ squareFile(getPiece(board, c, i).square) = CanonFiles[i + 1]
                    /\ squareRank(getPiece(board, c, i).square) = CanonRank(c, i)
                    /\ BoardGet(board, getPiece(board, c, i).square) = board.list[c][i + 1]
        /\ getPiece(board, WHITE, 0).square = 4
        /\ getPiece(board, BLACK, 0).square = 60
        /\ \A sq \in 16..47 : BoardGet(board, sq) = -1

\* setupStartPosition called as the third call, on a board set up from a FEN
\* on which a move was made (Black to move, fewer than 16 white pieces)
C21_Witness ==
    /\ trace # <<>>
    /\ LastCall.type = "setupStartPosition"
    /\ pos = MaxCalls
    /\ PreBoard.sideToMove = BLACK
    /\ PreBoard.listCount[WHITE] < 16
    /\ PreBoard.board[4] # 0
    /\ board.sideToMove = WHITE
    /\ board.listCount[WHITE] = 16

(***************************************************************************)
(* parseGameData(buf, offset, length) on a range inside a larger buffer:   *)
(* the record starts at `offset`, `length` cuts it short, covers it, or    *)
(* runs one byte past it, and further bytes may follow in the buffer       *)
(***************************************************************************)
\* Longest move stream of a record of the range specification
MaxRangeLen == 3

\* annotation tag, variation start and end, end of game, e-pawn double push,
\* queen with its own file as code, and 103 (a queen's second byte)
RangeBytes == {11, 13, 14, 15, 207, 67, 103}

\* a named tag ("X" = "Y"), then no more tags and the standard start
HDR_NAMED == <<1, 88, 1, 89, 0, 0>>

\* one common tag, then a custom start position
HDR_TAG_FEN == <<241, 1, 65, 0, 1>> \o FEN_KR \o <<0>>

\* tag sections that overrun: an extended value length (258 bytes), a name
\* longer than the record, a value longer than the record
OverrunRecords == {<<241, 241, 2, 65>>, <<3, 88>>, <<1, 88, 9, 89>>}

RangeRecords ==
    {h \o st : h \in {HDR_STD, HDR_TAG, HDR_NAMED}, st \in SeqsUpTo(RangeBytes, MaxRangeLen)}
    \cup {h \o st : h \in {HDR_FEN, HDR_TAG_FEN}, st \in SeqsUpTo(RangeBytes, 1)}
    \cup TruncatedRecords \cup OverrunRecords

\* bytes of the buffer in front of the record
RangeOffsets == {0, 2}

\* bytes of the buffer behind the record: none, or two e-pawn bytes
RangeTails == {<<>>, <<207, 207>>}

RangeInit ==
    \E rec \in RangeRecords, off \in RangeOffsets, tail \in RangeTails :
        \E len \in 0..(Len(rec) + 1) :
            Enter(ParserState(Repeat(255, off) \o rec \o tail, off, len))

RangeSpec == RangeInit /\ [][Next]_vars

(***************************************************************************)
(* C22 (checked under RangeSpec)                                           *)
(***************************************************************************)
\* the move loop is about to decode an annotation-tag marker
AtNag == pc = "moves" /\ Lt(pos, offset + length) /\ BufGet(buf, pos) = ENCODE_NAG

\* positions of the range a step has consumed
Consumed(p, q) == {i \in p..(q - 1) : i < offset + length}

\* the step logs the marker alone and adds nothing to the output
NagAddsNothing ==
    /\ Len(trace') = Len(trace) + 1
    /\ trace'[Len(trace')].r.type = "nag"
    /\ SubSeq(trace', 1, Len(trace)) = trace
    /\ pc' = "moves"
    /\ UNCHANGED <<moves, board, preMoveBoard, boardStack, depth, extraTags, startFen>>

\* C22 as stated: every annotation-tag marker consumes exactly one following
\* byte of the range as its value; the byte is not decoded as a move or a
\* marker, adds nothing to the output, and decoding resumes behind it.
C22_NagAlwaysConsumes ==
    [][ AtNag =>
          /\ pos + 1 < offset + length
          /\ pos' = pos + 2
          /\ reads' = reads \cup {pos, pos + 1}
          /\ NagAddsNothing
      ]_vars

\* C22, amended: an annotation-tag marker with a byte of the range behind it
\* consumes exactly that byte as its value: the step that decodes the marker
\* logs the marker alone, moves on to the byte behind the value, and changes
\* neither the moves, the boards, the variation stack nor the depth, whatever
\* the value byte is.  A marker that is the last byte of the range consumes
\* nothing, reads no byte behind the range, and adds nothing either.
C22_NagConsumesOneByte ==
    [][ AtNag =>
          /\ pos' = IF pos + 1 < offset + length THEN pos + 2 ELSE pos + 1
          /\ reads' = reads \cup Consumed(pos, pos + 2)
          /\ NagAddsNothing
      ]_vars

\* a marker whose value byte is 0x0F (end of game) with a pawn move behind it:
\* the parse went on and returned the pawn move
C22_Witness ==
    /\ pc = "done"
    /\ Len(trace) = 2
    /\ trace[1].r.type = "nag"
    /\ trace[2].r.type = "move"
    /\ Len(moves) = 1
    /\ BufGet(buf, pos - 2) = ENCODE_END_GAME
    /\ BufGet(buf, pos - 3) = ENCODE_NAG
    /\ pos = offset + length
    /\ offset > 0
    /\ Len(buf) > pos

(***************************************************************************)
(* C23 (checked under BoardSpec)                                           *)
(***************************************************************************)
\* the slot the last call captured (-1: the call captured nothing): the slot
\* on `to`, or else the pawn behind the en-passant square
CapturedSlot ==
    IF trace = <<>> \/ LastCall.type # "applyMove" \/ LastCall.isNull THEN -1
    ELSE IF ~IsIdx(BoardGet(PreBoard, LastCall.from)) THEN -1
    ELSE IF IsIdx(BoardGet(PreBoard, LastCall.to)) THEN BoardGet(PreBoard, LastCall.to)
    ELSE IF /\ PreBoard.pieces[BoardGet(PreBoard, LastCall.from)].type = PAWN
            /\ LastCall.to = PreBoard.epSquare
            /\ IsIdx(BoardGet(PreBoard, EpCaptureSquare(PreBoard, LastCall.to)))
         THEN BoardGet(PreBoard, EpCaptureSquare(PreBoard, LastCall.to))
    ELSE -1

CapturedColor == PreBoard.pieces[CapturedSlot].color

\* list index of the captured slot in its colour's list before the call
CapturedIndex == IndexOf(PreBoard.list[CapturedColor], CapturedSlot)

\* C23: when a capture removes the piece at list index i of a colour whose
\* list has n entries, that list afterwards has n-1 entries, entry i holds the
\* slot that was at entry n-1 (when i < n-1), every other entry below n-1
\* holds the slot it held before, the other colour's list and count are
\* unchanged, and the removed slot is off the board.
C23_CaptureCompactsList ==
    (CapturedSlot >= 0 /\ CapturedIndex >= 0) =>
        LET c == CapturedColor
            i == CapturedIndex
            n == PreBoard.listCount[c]
        IN  /\ Len(board.list[c]) = n - 1
            /\ board.listCount[c] = n - 1
            /\ i < n - 1 => board.list[c][i + 1] = PreBoard.list[c][n]
            /\ \A j \in 0..(n - 2) : j # i => board.list[c][j + 1] = PreBoard.list[c][j + 1]
            /\ board.list[1 - c] = PreBoard.list[1 - c]
            /\ board.listCount[1 - c] = PreBoard.listCount[1 - c]
            /\ board.pieces[CapturedSlot].square = -1
            /\ \A sq \in 0..63 : board.board[sq] # CapturedSlot

(***************************************************************************)
(* decodeMoveOrMarker applied once to one byte, on a board that holds the  *)
(* piece the byte names (as scid/decode.test.ts does); `trace` holds the   *)
(* application.                                                            *)
(***************************************************************************)
DecodeTypes == {KING, QUEEN, ROOK, BISHOP, KNIGHT, PAWN}
DecodeSquares == 0..63
DecodeCodes == 0..15

\* values of readNextByte(): range exhausted, h5 + 64, a1 + 64, h8 + 64, 255
DecodeNextBytes == {0, 103, 64, 127, 255}

\* a board with `color` to move whose king is list entry 0; a piece of
\* another type is list entry 1 and stands on `from`
PieceBoard(type, color, from) ==
    LET kingSq == IF type = KING THEN from ELSE IF from = 4 THEN 60 ELSE 4
        b1 == addPiece(NewBoard, KING, color, kingSq)
        b2 == IF type = KING THEN b1 ELSE addPiece(b1, type, color, from)
    IN  [b2 EXCEPT !.sideToMove = color]

\* the byte that names the piece with the code
PieceByte(type, code) == (IF type = KING THEN 0 ELSE 16) + code

DecodeInit ==
    /\ buf = <<>> /\ offset = 0 /\ length = 0 /\ pos = 0 /\ pc = "decode"
    /\ extraTags = <<>> /\ startFen = NullFen
    /\ board = NewBoard /\ preMoveBoard = NewBoard /\ boardStack = <<>>
    /\ depth = 0 /\ moves = <<>> /\ trace = <<>> /\ reads = {}
    /\ heap = NoHeap /\ db = ClosedDb

\* one call decodeMoveOrMarker(board, byte, readNextByte)
ApplyDecode ==
    /\ pc = "decode"
    /\ \E type \in DecodeTypes, color \in {WHITE, BLACK}, from \in DecodeSquares,
          code \in DecodeCodes, next \in DecodeNextBytes :
         /\ board' = PieceBoard(type, color, from)
         /\ buf' = <<PieceByte(type, code), next>>
         /\ trace' = <<[ r |-> decodeMoveOrMarker(PieceBoard(type, color, from),
                                                  PieceByte(type, code), next),
                         pre |-> PieceBoard(type, color, from),
                         type |-> type, color |-> color, from |-> from,
                         code |-> code, next |-> next ]>>
    /\ pc' = "applied"
    /\ UNCHANGED <<offset, length, pos, extraTags, startFen, preMoveBoard,
                   boardStack, depth, moves, reads, heap, db>>

DecodeNext == ApplyDecode

DecodeSpec == DecodeInit /\ [][DecodeNext]_vars

(***************************************************************************)
(* C24 (checked under DecodeSpec)                                          *)
(***************************************************************************)
\* the application the state holds
Applied == trace[1]

\* C24: for a queen on any square and any code 0..15, codes 8..15 give the
\* square on the queen's file with rank code-8, codes 0..7 other than the
\* queen's own file give the square on the queen's rank with file = code,
\* and a code equal to the queen's own file pulls exactly one extra byte and
\* gives destination extraByte - 64; the extra-byte callback is invoked in
\* that last case only, never for another move of any piece.
C24_QueenDecode ==
    (pc = "applied") =>
        LET x == Applied
            file == x.from % 8
            rank == x.from \div 8
        IN  /\ x.type = QUEEN =>
                  /\ x.r.type = "move"
                  /\ x.r.from = x.from
                  /\ x.code \in 8..15 =>
                        /\ x.r.to = (x.code - 8) * 8 + file
                        /\ ~x.r.pulled
                  /\ (x.code \in 0..7 /\ x.code # file) =>
                        /\ x.r.to = rank * 8 + x.code
                        /\ ~x.r.pulled
                  /\ x.code = file =>
                        /\ x.r.to = x.next - 64
                        /\ x.r.pulled
            /\ (x.type # QUEEN /\ x.r.type = "move") => ~x.r.pulled

\* the queen on d1 with code 3 and the extra byte 103: destination h5
C24_Witness ==
    /\ pc = "applied"
    /\ Applied.type = QUEEN
    /\ Applied.from = 3
    /\ Applied.code = 3
    /\ Applied.next = 103
    /\ Applied.r.pulled
    /\ Applied.r.to = 39
    /\ Applied.r.move.to = <<"h", "5">>

(***************************************************************************)
(* C25 (checked under DecodeSpec)                                          *)
(***************************************************************************)
\* direction k of a pawn code: 0 = capture-left, 1 = forward, 2 = capture-right;
\* the change of file it stands for (left is file-1 for White, file+1 for Black)
FileStep(color, k) ==
    IF k = 1 THEN 0
    ELSE IF k = 0 THEN (IF color = WHITE THEN -1 ELSE 1)
    ELSE (IF color = WHITE THEN 1 ELSE -1)

\* forward is rank+1 for White and rank-1 for Black
RankStep(color) == IF color = WHITE THEN 1 ELSE -1

PromotionOrder == <<QUEEN, ROOK, BISHOP, KNIGHT>>

\* `to` lies df files and dr ranks from `from`
Displaced(from, to, df, dr) ==
    /\ to % 8 = (from % 8) + df
    /\ to \div 8 = (from \div 8) + dr

\* C25: for a pawn of either colour on any square and every code 0..15:
\* codes 0, 1, 2 are capture-left, forward one, capture-right without
\* promotion; code 15 is forward two without promotion; codes 3..14 promote
\* to piece (code-3) div 3 of Queen, Rook, Bishop, Knight with direction
\* (code-3) mod 3; forward is rank+1 for White and rank-1 for Black, left is
\* file-1 for White and file+1 for Black, and a capture changes the file by
\* exactly one.
C25_PawnDecode ==
    (pc = "applied" /\ Applied.type = PAWN) =>
        LET x == Applied
            k == IF x.code <= 2 THEN x.code ELSE (x.code - 3) % 3
        IN  /\ x.r.type = "move"
            /\ x.r.from = x.from
            /\ ~x.r.pulled
            /\ x.code = 15 =>
                  /\ x.r.promo = NoPromo
                  /\ Displaced(x.from, x.r.to, 0, 2 * RankStep(x.color))
            /\ x.code \in 0..2 =>
                  /\ x.r.promo = NoPromo
                  /\ Displaced(x.from, x.r.to, FileStep(x.color, k), RankStep(x.color))
            /\ x.code \in 3..14 =>
                  /\ x.r.promo = PromotionOrder[((x.code - 3) \div 3) + 1]
                  /\ Displaced(x.from, x.r.to, FileStep(x.color, k), RankStep(x.color))
            /\ (x.code # 15 /\ k # 1) => Abs((x.r.to % 8) - (x.from % 8)) = 1

(***************************************************************************)
(* codec4.readNamebase applied once to a name file written from four       *)
(* blocks of front-coded entries (scid/SPEC.md, "SCID4 Namebase File");    *)
(* `trace` holds the application.                                          *)
(***************************************************************************)
\* Most entries of the Player and Event blocks
MaxBlockLen == 2

NamePrefixes == 0..2

\* suffix bytes: "a", "bc"
NameSuffixes == {<<97>>, <<98, 99>>}

NameEntrySet == [prefix : NamePrefixes, suffix : NameSuffixes]

\* the four blocks: Player and Event with up to MaxBlockLen entries, Site and
\* Round with at most one
NameBlocks ==
    { <<p, e, s, r>> : p \in SeqsUpTo(NameEntrySet, MaxBlockLen),
                       e \in SeqsUpTo(NameEntrySet, MaxBlockLen),
                       s \in SeqsUpTo(NameEntrySet, 1),
                       r \in SeqsUpTo(NameEntrySet, 1) }

\* uint24, big-endian
BE24(x) == <<0, x \div 256, x % 256>>

\* entry j of a block: ID (2 bytes; file order, or reversed), frequency
\* (1 byte), length, prefix, suffix bytes
RECURSIVE EncodeBlock4(_, _, _)
EncodeBlock4(block, j, reversed) ==
    IF j > Len(block) THEN <<>>
    ELSE <<0, IF reversed THEN Len(block) - j ELSE j - 1, 1,
           block[j].prefix + Len(block[j].suffix), block[j].prefix>>
         \o block[j].suffix \o EncodeBlock4(block, j + 1, reversed)

\* the .sn4 file of four blocks
EncodeNames4(blocks, reversed) ==
    <<83, 99, 105, 100, 46, 115, 110, 4>> \o <<0, 0, 0, 0>>
    \o BE24(Len(blocks[1])) \o BE24(Len(blocks[2]))
    \o BE24(Len(blocks[3])) \o BE24(Len(blocks[4]))
    \o BE24(1) \o BE24(1) \o BE24(1) \o BE24(1)
    \o EncodeBlock4(blocks[1], 1, reversed) \o EncodeBlock4(blocks[2], 1, reversed)
    \o EncodeBlock4(blocks[3], 1, reversed) \o EncodeBlock4(blocks[4], 1, reversed)

NameInit ==
    /\ buf = <<>> /\ offset = 0 /\ length = 0 /\ pos = 0 /\ pc = "names"
    /\ extraTags = <<>> /\ startFen = NullFen
    /\ board = NewBoard /\ preMoveBoard = NewBoard /\ boardStack = <<>>
    /\ depth = 0 /\ moves = <<>> /\ trace = <<>> /\ reads = {}
    /\ heap = NoHeap /\ db = ClosedDb

\* one call codec4.readNamebase(buf)
ReadNames4 ==
    /\ pc = "names"
    /\ \E blocks \in NameBlocks, reversed \in BOOLEAN :
         /\ buf' = EncodeNames4(blocks, reversed)
         /\ trace' = <<[ call |-> "readNamebase", blocks |-> blocks, reversed |-> reversed,
                         names |-> codec4_readNamebase(EncodeNames4(blocks, reversed)) ]>>
    /\ pc' = "applied"
    /\ UNCHANGED <<offset, length, pos, extraTags, startFen, board, preMoveBoard,
                   boardStack, depth, moves, reads, heap, db>>

NameNext == ReadNames4

NameSpec == NameInit /\ [][NameNext]_vars

(***************************************************************************)
(* C26 (checked under NameSpec)                                            *)
(***************************************************************************)
\* the bytes of the name of entry j of a block whose first entry comes
\* behind an entry named `before`
RECURSIVE EntryName(_, _, _)
EntryName(block, j, before) ==
    LET prev == IF j = 1 THEN before ELSE EntryName(block, j - 1, before)
        n == IF block[j].prefix < Len(prev) THEN block[j].prefix ELSE Len(prev)
    IN  SubSeq(prev, 1, n) \o block[j].suffix

\* the name of the last entry in file order in front of block t, the chain
\* of prefixes running on across the blocks
RECURSIVE NameInFrontOf(_, _)
NameInFrontOf(blocks, t) ==
    IF t = 1 THEN <<>>
    ELSE IF blocks[t - 1] = <<>> THEN NameInFrontOf(blocks, t - 1)
    ELSE EntryName(blocks[t - 1], Len(blocks[t - 1]), NameInFrontOf(blocks, t - 1))

\* the text of a byte sequence of letters
TextOf(bytes) == [i \in 1..Len(bytes) |-> fromCharCode(bytes[i])[1]]

\* the name the dictionary holds for entry j of block t
DictionaryName(x, t, j) ==
    x.names[t][(IF x.reversed THEN Len(x.blocks[t]) - j ELSE j - 1) + 1]

\* C26 as stated: every entry's name is the first `prefix` characters of the
\* entry immediately preceding it in file order followed by its suffix bytes,
\* the first entry of the Event, Site and Round blocks taking the last entry
\* of the block before as its predecessor.
C26_PrefixAcrossBlocks ==
    (pc = "applied") =>
        \A t \in 1..4 : \A j \in 1..Len(Applied.blocks[t]) :
            DictionaryName(Applied, t, j)
                = TextOf(EntryName(Applied.blocks[t], j, NameInFrontOf(Applied.blocks, t)))

\* C26, amended: every entry's name is the first `prefix` characters of the
\* entry immediately preceding it in its own category block followed by its
\* suffix bytes; the first entry of each block is preceded by the empty name,
\* so it is its suffix whatever its prefix byte is.
C26_PrefixWithinBlock ==
    (pc = "applied") =>
        /\ Len(Applied.names) = 5
        /\ \A t \in 1..4 :
              /\ Len(Applied.names[t]) = Len(Applied.blocks[t])
              /\ \A j \in 1..Len(Applied.blocks[t]) :
                    DictionaryName(Applied, t, j)
                        = TextOf(EntryName(Applied.blocks[t], j, <<>>))

\* players "a", "abc" (prefix 1) and a first event entry with prefix 2 and
\* suffix "bc": the event is "bc", not "abbc"
C26_Witness ==
    /\ pc = "applied"
    /\ Len(Applied.blocks[1]) = 2
    /\ Applied.blocks[1][2].prefix = 1
    /\ Applied.names[1][2] = <<"a", "b", "c">>
    /\ Len(Applied.blocks[2]) = 2
    /\ Applied.blocks[2][1].prefix = 2
    /\ Applied.names[2][1] = <<"b", "c">>
    /\ Applied.names[2][2] = <<"b", "c", "a">>
    /\ ~Applied.reversed

(***************************************************************************)
(* setupFromFEN applied to placement strings                               *)
(***************************************************************************)
\* Most rows of a placement string
MaxFenRows == 3

\* "8", "PPPPPPPP", "pppppppp", "4K3", "4k3", "RNBQKBNR", "P6p"
FenRowSet ==
    { <<56>>,
      <<80, 80, 80, 80, 80, 80, 80, 80>>,
      <<112, 112, 112, 112, 112, 112, 112, 112>>,
      <<52, 75, 51>>,
      <<52, 107, 51>>,
      <<82, 78, 66, 81, 75, 66, 78, 82>>,
      <<80, 54, 112>> }

\* rows.join("/")
RECURSIVE JoinRows(_)
JoinRows(rows) ==
    IF Len(rows) = 1 THEN rows[1]
    ELSE rows[1] \o <<CH_SLASH>> \o JoinRows(Tail(rows))

Placements ==
    { JoinRows(rows) : rows \in UNION { [1..n -> FenRowSet] : n \in 1..MaxFenRows } }

FenInit ==
    /\ offset = 0 /\ length = 0 /\ pos = 0 /\ pc = "fen"
    /\ buf \in Placements
    /\ extraTags = <<>> /\ startFen = NullFen
    /\ board = NewBoard /\ preMoveBoard = NewBoard /\ boardStack = <<>>
    /\ depth = 0 /\ moves = <<>> /\ trace = <<>> /\ reads = {}
    /\ heap = NoHeap /\ db = ClosedDb

\* board.setupFromFEN(fen) on a new Board
ApplySetupFromFEN ==
    /\ pc = "fen"
    /\ board' = setupFromFEN(board, buf)
    /\ pc' = "set"
    /\ UNCHANGED <<buf, offset, length, pos, extraTags, startFen, preMoveBoard,
                   boardStack, depth, moves, trace, reads, heap, db>>

FenNext == ApplySetupFromFEN

FenSpec == FenInit /\ [][FenNext]_vars

(***************************************************************************)
(* C27: the piece lists after setupFromFEN                                 *)
(***************************************************************************)
\* the absolute slots of a color: 0..15 for white, 16..31 for black
SlotsOf(c) == (c * 16)..(c * 16 + 15)

\* the (color, list position) pairs of a board
ListsWellFormed(b) ==
    /\ \A c \in 0..1 :
          /\ Len(b.list[c]) <= 16
          /\ \A i \in 1..Len(b.list[c]) :
                /\ b.list[c][i] \in SlotsOf(c)
                /\ b.pieces[b.list[c][i]].color = c
                /\ b.pieces[b.list[c][i]].type # EMPTY
    /\ \A c \in 0..1, d \in 0..1 :
          \A i \in 1..Len(b.list[c]), j \in 1..Len(b.list[d]) :
              b.list[c][i] = b.list[d][j] => (c = d /\ i = j)

\* C27: after setupFromFEN on any placement string each color's list has at
\* most 16 entries, white pieces are in slots 0..15 and black pieces in slots
\* 16..31, every listed slot holds a piece of the list's color, and no slot
\* is listed twice.
C27_FenListsWellFormed == pc = "set" => ListsWellFormed(board)

(***************************************************************************)
(* C28: the variation depth and the variation stack (checked under Spec)   *)
(***************************************************************************)
\* C28: at every step of a parse, whatever the byte stream (one with a
\* variation-end marker that has no matching variation-start included), the
\* variation depth is non-negative and equals the number of boards on the
\* variation stack, so that after an unmatched variation-end the parser is
\* still at depth 0 and later moves are still appended to the main line.
C28_DepthMatchesStack == depth >= 0 /\ depth = Len(boardStack)

(***************************************************************************)
(* C29: termination of parseGameData                                       *)
(***************************************************************************)
\* Longest move stream of a record of the termination specification
MaxTermLen == 2

\* annotation tag, variation start and end, end of game, e-pawn double push
TermBytes == {11, 13, 14, 15, 207}

\* one common tag, then the custom start position "4K3"
HDR_TAG_KING == <<241, 1, 65, 0, 1, 52, 75, 51, 0>>

TermRecords ==
    {h \o st : h \in {HDR_STD, HDR_NAMED}, st \in SeqsUpTo(TermBytes, MaxTermLen)}
    \cup {HDR_TAG_KING \o st : st \in SeqsUpTo(TermBytes, 1)}
    \cup TruncatedRecords \cup OverrunRecords

\* the record alone in its buffer, or between two bytes and two e-pawn bytes
TermFrames == {<<0, <<>>>>, <<2, <<207, 207>>>>}

TermInit ==
    \E rec \in TermRecords, fr \in TermFrames :
        \E len \in 0..(Len(rec) + 1) :
            Enter(ParserState(Repeat(255, fr[1]) \o rec \o fr[2], fr[1], len))

\* parseGameData is one synchronous call: once entered it keeps executing,
\* whichever statement it has reached, until it returns or throws
Running ==
    /\ WF_vars(ReadTag) /\ WF_vars(EndTags) /\ WF_vars(StartPosition)
    /\ WF_vars(MoveLoop) /\ WF_vars(EndOfRange)

TermSpec == TermInit /\ [][Next]_vars /\ Running

\* bytes of the range at or behind the read position (none once the
\* position is NaN, which fails every `pos < end`)
Remaining == IF IsNum(pos) /\ pos < offset + length THEN offset + length - pos ELSE 0

RemainingNext == IF IsNum(pos') /\ pos' < offset + length THEN offset + length - pos' ELSE 0

\* iterations of the FEN scan `while (pos < end && buf[pos] !== 0) pos++`
\* started at p
FenScanIterations(b, p, end) == FenScan(b, p, end) - p

\* loop iterations executed by the step about to be taken
Iterations ==
    CASE pc = "tags" /\ Lt(pos, offset + length) -> 1
      [] pc = "moves" /\ Lt(pos, offset + length) -> 1
      [] pc = "flag" /\ Lt(pos, offset + length) /\ BufGet(buf, pos) \in 0..255
                     /\ BufGet(buf, pos) % 2 = 1 ->
             FenScanIterations(buf, pos + 1, offset + length)
      [] OTHER -> 0

\* the call has returned or thrown
Ended == pc \in {"done", "thrown"}

\* C29 as stated: every iteration of the tag loop, the FEN scan and the
\* move loop leaves the read position strictly greater than it was, at most
\* `length` iterations are executed, and the call ends.
C29_EveryIterationAdvances ==
    /\ [][Iterations > 0 => (Lt(pos, pos') /\ Iterations <= Remaining - RemainingNext)]_vars
    /\ <>Ended

\* C29, amended: every iteration either leaves the read position strictly
\* greater than it was or leaves it NaN (a tag whose length byte lies behind
\* the buffer), which fails every later loop condition; each step uses up at
\* least as many bytes of the range as it executes iterations, so at most
\* `length` iterations are executed in total, and the call ends.
C29_Terminates ==
    /\ [][Iterations > 0 =>
            /\ Lt(pos, pos') \/ ~IsNum(pos')
            /\ Iterations <= Remaining - RemainingNext]_vars
    /\ [](Remaining <= length)
    /\ <>Ended

\* a call that has returned after tag iterations, FEN-scan iterations and
\* move-loop iterations
C29_Witness ==
    /\ pc = "done"
    /\ extraTags # <<>>
    /\ startFen # NullFen /\ Len(startFen) > 0
    /\ trace # <<>>
    /\ pos = offset + length

(***************************************************************************)
(* C30: the positions parseGameData reads (checked under RangeSpec)        *)
(***************************************************************************)
\* position p lies in [offset, offset + length)
InRange(p) == offset <= p /\ p < offset + length

\* the positions read at which the buffer holds a byte
BytesRead == {p \in reads : p < Len(buf)}

\* C30: parseGameData(buf, offset, length) reads only bytes at positions in
\* [offset, offset + length): no tag name, tag length byte, tag value, FEN
\* byte, move byte or pulled extra byte comes from a position at or beyond
\* offset + length, also when the buffer extends past the range and a
\* declared tag length overruns it.
C30_ReadsInsideRange == \A p \in BytesRead : InRange(p)

====
